---- MODULE Spec2Model ----
(***************************************************************************)
(* Cluster health tracker and request dispatcher of                        *)
(* peterbourgon/elasticsearch: cluster.go (Cluster, its event loop, the    *)
(* bundles and their workers) and requests.go (Node, Nodes, Health).       *)
(*                                                                         *)
(* Goroutines are processes with a program counter.  An unbuffered channel *)
(* operation is a rendezvous: one step that moves the sender and the       *)
(* receiver together.  A network call (Ping, Node.Search) is a state the   *)
(* task stays in until the step that ends it; a call that hangs is a task  *)
(* that never takes that step.                                             *)
(***************************************************************************)
EXTENDS Integers, Sequences, FiniteSets, TLC

\* ---------------------------------------------------------------- bounds
NumNodes == 2       \* endpoints passed to NewCluster
NumCallers == 2     \* goroutines that each make one call on the Cluster
MaxTicks == 1       \* ticks whose pingAndSet tasks are followed one by one
MaxNames == 3       \* names in a SearchRequest's list of indices or of types
MaxWriters == 2     \* pingAndSet tasks in flight on one node at the same time
MaxRequests == 2    \* sub-requests in a BulkRequest or a MultiSearchRequest

Nodes == 1..NumNodes
Callers == 1..NumCallers
Cycles == 1..MaxTicks

\* ------------------------------------------------- requests.go: Health
Green == 0
Yellow == 1
Red == 2
Health == {Green, Yellow, Red}

\* A slip in Improve: the case Red is missing and every value goes to Green.
ImproveNoRedCase(h) == Green

Improve(h) == IF h = Red THEN Yellow ELSE Green

\* A slip in Degrade: the default case returns the value unchanged.
DegradeDefaultKeeps(h) == IF h = Green THEN Yellow ELSE h

\* A slip in Degrade: every failure gives Red.
DegradeStraightToRed(h) == Red

Degrade(h) == IF h = Green THEN Yellow ELSE Red

\* ------------------------------------------------------------- the state
VARIABLES
    health,     \* Node.health, per node
    probing,    \* TRUE once a tick has launched pingAll: pingAndSet tasks exist
    ticks,      \* ticks handled, where the tasks are followed one by one
    probe,      \* the pingAndSet task of each (tick, node), where followed
    writer,     \* Node.RWMutex: the task that holds the node's write lock
    loop,       \* Cluster.loop: position and locals (b, q, getBest's locals)
    caller,     \* each caller of Search / MultiSearch / Shutdown
    worker,     \* sendSearchBundle / sendMultiSearchBundle goroutine per bundle
    pinger,     \* a call of pingAll followed step by step: position and locals
    request,    \* the SearchRequest on which Path is called
    path,       \* what that call of Path returned
    batch,      \* the BulkRequest or MultiSearchRequest on which Request is called
    built,      \* what that call of Request returned
    data,       \* the JSON text given to BulkItemResponse.UnmarshalJSON
    item        \* the BulkItemResponse and the error after that call

vars == <<health, probing, ticks, probe, writer, loop, caller, worker, pinger,
          request, path, batch, built, data, item>>

pathCall == <<request, path>>
bodyCall == <<batch, built>>
itemCall == <<data, item>>
calls == <<pathCall, bodyCall, itemCall>>

tasks == <<ticks, probe, writer, pinger>>

None == 0
NoTask == 0
IdleTask == [pc |-> "idle", reply |-> "none", val |-> Green]

\* Values that travel on the bundle channels and come back from Search: what
\* node n answered to request r, the error node n gave for r, the error
\* getBest gave while request r was being placed, and Go's zero values.
Response(r, n) == [tag |-> "response", request |-> r, node |-> n]
ExecError(r, n) == [tag |-> "error", request |-> r, node |-> n]
NoHealthyNodes(r) == [tag |-> "no healthy nodes available", request |-> r, node |-> None]
ZeroResponse == [tag |-> "zero", request |-> None, node |-> None]
Nil == [tag |-> "nil", request |-> None, node |-> None]
NoResult == [response |-> ZeroResponse, err |-> Nil]

IdleCaller == [pc |-> "idle", kind |-> "none", ticket |-> 0, result |-> NoResult]
NoWorker == [pc |-> "none", node |-> None, out |-> Nil]
NoPingAll == [pc |-> "none", len |-> 0, j |-> 1, c |-> 0, i |-> 0]
LoopAt(pc) == [pc |-> pc, b |-> None, kind |-> "none", i |-> 1,
               green |-> <<>>, yellow |-> <<>>, node |-> None]

\* A slip in NewNode: the health field is set to Red.
NewNodeStartsRed(n) == Red

\* NewNode: every node starts Yellow, unlocked.
NewNode(n) == Yellow

\* A slip in NewCluster: it calls go nodes.pingAll() before it returns.
NewClusterPings ==
    /\ health = [n \in Nodes |-> NewNode(n)]
    /\ probing = TRUE
    /\ ticks = 0
    /\ probe = [k \in Cycles |-> [n \in Nodes |-> IdleTask]]
    /\ writer = [n \in Nodes |-> NoTask]
    /\ loop = LoopAt("start")
    /\ caller = [c \in Callers |-> IdleCaller]
    /\ worker = [c \in Callers |-> NoWorker]
    /\ pinger = NoPingAll

\* NewCluster: one node per endpoint, unbuffered intake channels, and the go
\* statement for the loop: when NewCluster returns the loop goroutine exists
\* and has yet to run its first statement.
NewCluster ==
    /\ health = [n \in Nodes |-> NewNode(n)]
    /\ probing = FALSE
    /\ ticks = 0
    /\ probe = [k \in Cycles |-> [n \in Nodes |-> IdleTask]]
    /\ writer = [n \in Nodes |-> NoTask]
    /\ loop = LoopAt("start")
    /\ caller = [c \in Callers |-> IdleCaller]
    /\ worker = [c \in Callers |-> NoWorker]
    /\ pinger = NoPingAll

\* The zero SearchRequest, and no call of Path made on it.
NoRequest == [Indices |-> <<>>, Types |-> <<>>]
NoPath == ""
NoPathCall == request = NoRequest /\ path = NoPath

\* No BulkRequest or MultiSearchRequest at hand and no call of Request made;
\* no JSON text at hand and no call of UnmarshalJSON made.
NoBatch == [kind |-> "none", Requests |-> <<>>]
NoHTTPRequest == [Method |-> "none", Path |-> "", Body |-> ""]
NotBuilt == [request |-> NoHTTPRequest, err |-> "none"]
NoBodyCall == batch = NoBatch /\ built = NotBuilt

Absent == [type |-> "absent", id |-> "", ok |-> FALSE]
NoData == [json |-> "none", create |-> Absent, index |-> Absent, delete |-> Absent,
           update |-> Absent]
ZeroIndexResponse == [ID |-> "", OK |-> FALSE]
NoItem == [response |-> ZeroIndexResponse, err |-> "none"]
NoItemCall == data = NoData /\ item = NoItem

NoCalls == NoPathCall /\ NoBodyCall /\ NoItemCall

Init == NewCluster /\ NoCalls

\* ------------------------------------------- cluster.go: bundles, callers
\* A bundle is the request and two fresh unbuffered channels.  A channel is
\* named by the call that made it.
makeSearchBundle(r) == [request |-> r, response |-> r, err |-> r]

makeMultiSearchBundle(r) == [request |-> r, response |-> r, err |-> r]

\* A slip in the bundles: the channels are made once and every bundle gets
\* the same two.
BundleSharedChannels(c) == [request |-> c, response |-> None, err |-> None]

Bundle(c) ==
    IF caller[c].kind = "msearch" THEN makeMultiSearchBundle(c)
    ELSE makeSearchBundle(c)

\* The callers are goroutines of the client program.  Odd callers are the ones
\* that search with Search, even callers with MultiSearch; any of them may
\* call Shutdown instead.
Searches(c) == c % 2 = 1

\* The place a caller takes when it arrives at its send on an intake channel:
\* behind the callers that are blocked in such a send now.  The field ticket
\* records the order of arrival; no step of the program reads it.
Arrive == 1 + Cardinality({d \in Callers : caller[d].pc = "sending"})

\* A caller's send has completed: it leaves the order of arrival and the
\* callers behind it move up.
Taken(c, pc) ==
    [d \in Callers |->
        IF d = c THEN [caller[d] EXCEPT !.pc = pc, !.ticket = 0]
        ELSE IF caller[d].ticket > caller[c].ticket
        THEN [caller[d] EXCEPT !.ticket = @ - 1]
        ELSE caller[d]]

\* A slip in NewCluster: searchBundles is made with a buffer, and the send in
\* Search completes with no loop to receive.
SearchSendBuffered(c) ==
    /\ Searches(c)
    /\ caller[c].pc = "idle"
    /\ caller' = [caller EXCEPT ![c] = [@ EXCEPT !.pc = "waiting", !.kind = "search"]]
    /\ UNCHANGED <<calls, health, probing, tasks, loop, worker>>

\* Cluster.Search up to the send on c.searchBundles, which blocks until the
\* loop receives.
Search(c) ==
    /\ Searches(c)
    /\ caller[c].pc = "idle"
    /\ caller' = [caller EXCEPT ![c] = [@ EXCEPT !.pc = "sending", !.kind = "search",
                                           !.ticket = Arrive]]
    /\ UNCHANGED <<calls, health, probing, tasks, loop, worker>>

\* Cluster.MultiSearch up to the send on c.multiSearchBundles.
MultiSearch(c) ==
    /\ ~Searches(c)
    /\ caller[c].pc = "idle"
    /\ caller' = [caller EXCEPT ![c] = [@ EXCEPT !.pc = "sending", !.kind = "msearch",
                                           !.ticket = Arrive]]
    /\ UNCHANGED <<calls, health, probing, tasks, loop, worker>>

\* Cluster.Shutdown up to the send on c.shutdown.
Shutdown(c) ==
    /\ caller[c].pc = "idle"
    /\ caller' = [caller EXCEPT ![c] = [@ EXCEPT !.pc = "sending", !.kind = "shutdown",
                                           !.ticket = Arrive]]
    /\ UNCHANGED <<calls, health, probing, tasks, loop, worker>>

\* A slip in Search: the value is taken and the select is entered again.
SearchTakesAndWaits(c, v, onErr) ==
    [caller[c] EXCEPT !.result = IF onErr THEN [response |-> ZeroResponse, err |-> v]
                                 ELSE [response |-> v, err |-> Nil]]

\* A slip in Search: the err case returns a response that is not the zero
\* value along with the error.
SearchReturnsResponseWithError(c, v, onErr) ==
    [caller[c] EXCEPT !.pc = "returned",
                      !.result = IF onErr THEN [response |-> Response(c, v.node), err |-> v]
                                 ELSE [response |-> v, err |-> Nil]]

\* The select at the end of Search / MultiSearch: a value from b.response is
\* returned with a nil error, a value from b.err with the zero response.
SearchReturn(c, v, onErr) ==
    [caller[c] EXCEPT !.pc = "returned",
                      !.result = IF onErr THEN [response |-> ZeroResponse, err |-> v]
                                 ELSE [response |-> v, err |-> Nil]]

\* ------------------------------------------------ requests.go: Node, Nodes
\* A slip in Ping: the check of status.OK is missing.
PingIgnoresStatus(reply) == reply \in {"ok", "not ok"}

\* Ping: TRUE only for a reply that arrives in time and decodes to ok=true.
Ping(reply) == reply = "ok"

PingReplies == {"ok", "not ok", "malformed", "timeout", "transport error"}

\* A slip in pingAndSet: a node that a failed Ping takes to Red is dropped
\* from the set.
pingAndSetDropsRed(n) ==
    /\ probing
    /\ n \in DOMAIN health
    /\ \E success \in {Ping(reply) : reply \in PingReplies} :
          LET h == IF success THEN Improve(health[n]) ELSE Degrade(health[n]) IN
          health' = IF h = Red
                    THEN [i \in 1..(Len(health) - 1) |->
                            IF i < n THEN health[i] ELSE health[i + 1]]
                    ELSE [health EXCEPT ![n] = h]
    /\ UNCHANGED <<calls, probing, tasks, loop, caller, worker>>

\* pingAndSet of one task of node n: Ping returns, then under n.Lock() the
\* health is replaced by its Improve or its Degrade.  GetHealth takes the
\* same lock, so the locked assignment is one step for every reader.
pingAndSet(n) ==
    /\ probing
    /\ \E success \in {Ping(reply) : reply \in PingReplies} :
          health' = [health EXCEPT ![n] = IF success THEN Improve(@) ELSE Degrade(@)]
    /\ UNCHANGED <<calls, probing, tasks, loop, caller, worker>>

\* A slip in pingAndSet: n.Lock() is missing.
pingAndSetWithoutLock(k, n) ==
    /\ probe[k][n].pc = "ping"
    /\ \E reply \in PingReplies :
          probe' = [probe EXCEPT ![k][n] =
                      [pc |-> "set", reply |-> reply,
                       val |-> IF Ping(reply) THEN Improve(health[n])
                               ELSE Degrade(health[n])]]
    /\ writer' = [writer EXCEPT ![n] = k]
    /\ UNCHANGED <<calls, health, probing, ticks, pinger, loop, caller, worker>>

\* A slip in pingAndSet: n.Lock() is taken before the call of Ping, and the
\* lock is held until the Ping has returned and the health is assigned.
pingAndSetLockAroundPing(k, n) ==
    /\ probe[k][n].pc = "ping"
    /\ IF writer[n] = k
       THEN \E reply \in PingReplies :
               probe' = [probe EXCEPT ![k][n] =
                           [pc |-> "set", reply |-> reply,
                            val |-> IF Ping(reply) THEN Improve(health[n])
                                    ELSE Degrade(health[n])]]
       ELSE writer[n] = NoTask /\ probe' = probe
    /\ writer' = [writer EXCEPT ![n] = k]
    /\ UNCHANGED <<calls, health, probing, ticks, pinger, loop, caller, worker>>

\* The same pingAndSet with its task followed step by step.  First step:
\* Ping returns with some reply, n.Lock() is acquired (no other task holds
\* it) and the right-hand side n.health.Improve() / .Degrade() is evaluated.
\* While its Ping has not returned a task holds no lock.
pingAndSetLock(k, n) ==
    /\ probe[k][n].pc = "ping"
    /\ writer[n] = NoTask
    /\ \E reply \in PingReplies :
          probe' = [probe EXCEPT ![k][n] =
                      [pc |-> "set", reply |-> reply,
                       val |-> IF Ping(reply) THEN Improve(health[n])
                               ELSE Degrade(health[n])]]
    /\ writer' = [writer EXCEPT ![n] = k]
    /\ UNCHANGED <<calls, health, probing, ticks, pinger, loop, caller, worker>>

\* A slip in pingAndSet: a failed Ping is also reported, as an error, to the
\* callers that are waiting for a result.
pingAndSetStoreReportsFailure(k, n) ==
    /\ probe[k][n].pc = "set"
    /\ health' = [health EXCEPT ![n] = probe[k][n].val]
    /\ writer' = [writer EXCEPT ![n] = NoTask]
    /\ probe' = [probe EXCEPT ![k][n] = [IdleTask EXCEPT !.pc = "done"]]
    /\ caller' = [c \in Callers |->
                    IF caller[c].pc = "waiting" /\ ~Ping(probe[k][n].reply)
                    THEN SearchReturn(c, [tag |-> "ping failed", request |-> None,
                                          node |-> n], TRUE)
                    ELSE caller[c]]
    /\ UNCHANGED <<calls, probing, ticks, pinger, loop, worker>>

\* A slip in pingAndSet: the assignment applies the transition a second time
\* to the value it computed.
pingAndSetStoreAppliesTwice(k, n) ==
    /\ probe[k][n].pc = "set"
    /\ health' = [health EXCEPT ![n] = IF Ping(probe[k][n].reply)
                                       THEN Improve(probe[k][n].val)
                                       ELSE Degrade(probe[k][n].val)]
    /\ writer' = [writer EXCEPT ![n] = NoTask]
    /\ probe' = [probe EXCEPT ![k][n] = [IdleTask EXCEPT !.pc = "done"]]
    /\ UNCHANGED <<calls, probing, ticks, pinger, loop, caller, worker>>

\* Second step: the assignment to n.health and the deferred n.Unlock().
pingAndSetStore(k, n) ==
    /\ probe[k][n].pc = "set"
    /\ health' = [health EXCEPT ![n] = probe[k][n].val]
    /\ writer' = [writer EXCEPT ![n] = NoTask]
    /\ probe' = [probe EXCEPT ![k][n] = [IdleTask EXCEPT !.pc = "done"]]
    /\ UNCHANGED <<calls, probing, ticks, pinger, loop, caller, worker>>

\* GetHealth: RLock (waits while a task holds the write lock), read, RUnlock.
GetHealth(n) == health[n]

\* A slip in getBest: the two tiers are tested in the wrong order.
getBestPickYellowFirst(green, yellow) ==
    IF Len(yellow) > 0 THEN {yellow[j] : j \in 1..Len(yellow)}
    ELSE IF Len(green) > 0 THEN {green[j] : j \in 1..Len(green)}
    ELSE {None}

\* A slip in getBest: one list for both tiers.
getBestPickOneList(green, yellow) ==
    IF Len(green \o yellow) > 0
    THEN {(green \o yellow)[j] : j \in 1..Len(green \o yellow)}
    ELSE {None}

\* A slip in getBest: the first node of the list is taken, with no rand.Intn.
getBestPickFirst(green, yellow) ==
    IF Len(green) > 0 THEN {green[1]}
    ELSE IF Len(yellow) > 0 THEN {yellow[1]}
    ELSE {None}

\* getBest, after the range loop: the nodes rand.Intn can select; None (nil)
\* stands for the error return.
\* A slip in getBest: with both lists empty it falls back on any node
\* instead of returning the error.
getBestPickFallsBack(green, yellow) ==
    IF Len(green) > 0 THEN {green[j] : j \in 1..Len(green)}
    ELSE IF Len(yellow) > 0 THEN {yellow[j] : j \in 1..Len(yellow)}
    ELSE Nodes

getBestPick(green, yellow) ==
    IF Len(green) > 0 THEN {green[j] : j \in 1..Len(green)}
    ELSE IF Len(yellow) > 0 THEN {yellow[j] : j \in 1..Len(yellow)}
    ELSE {None}

\* A slip in getBest: the switch has a default case that appends to yellow.
getBestListsRed ==
    /\ loop.pc = "getBest"
    /\ loop.i \in DOMAIN health => writer[loop.i] = NoTask
    /\ LET i == loop.i
           h == IF i \in DOMAIN health THEN GetHealth(i) ELSE Red
           green == IF h = Green THEN Append(loop.green, i) ELSE loop.green
           yellow == IF h # Green THEN Append(loop.yellow, i) ELSE loop.yellow
       IN IF i < Len(health)
          THEN loop' = [loop EXCEPT !.i = i + 1, !.green = green, !.yellow = yellow]
          ELSE \E node \in getBestPick(green, yellow) :
                 loop' = [LoopAt(IF node = None THEN "sendErr" ELSE "go")
                            EXCEPT !.b = loop.b, !.kind = loop.kind, !.node = node]
    /\ UNCHANGED <<calls, health, probing, tasks, caller, worker>>

\* getBest, one iteration of the range loop: read node i's health and append
\* the node to green or yellow.  The iteration that ends the range goes on to
\* the choice and the return, which read no shared state; the loop is then at
\* the go statement with the node, or at b.err <- err with the error.
getBest ==
    /\ loop.pc = "getBest"
    /\ loop.i \in DOMAIN health => writer[loop.i] = NoTask
    /\ LET i == loop.i
           h == IF i \in DOMAIN health THEN GetHealth(i) ELSE Red
           green == IF h = Green THEN Append(loop.green, i) ELSE loop.green
           yellow == IF h = Yellow THEN Append(loop.yellow, i) ELSE loop.yellow
       IN IF i < Len(health)
          THEN loop' = [loop EXCEPT !.i = i + 1, !.green = green, !.yellow = yellow]
          ELSE \E node \in getBestPick(green, yellow) :
                 loop' = [LoopAt(IF node = None THEN "sendErr" ELSE "go")
                            EXCEPT !.b = loop.b, !.kind = loop.kind, !.node = node]
    /\ UNCHANGED <<calls, health, probing, tasks, caller, worker>>

\* pingAll followed step by step, for the call made on the first pinger.len
\* nodes.  c := make(chan bool, len(n)): pinger.c counts the values in the
\* channel, whose capacity is pinger.len.
\* One iteration of the first loop: the go statement for node pinger.j, whose
\* goroutine starts with its pingAndSet, that is with its Ping.
pingAllGo ==
    /\ pinger.pc = "range"
    /\ pinger.j <= pinger.len
    /\ probe' = [probe EXCEPT ![1][pinger.j] = [IdleTask EXCEPT !.pc = "ping"]]
    /\ pinger' = [pinger EXCEPT !.j = @ + 1]
    /\ UNCHANGED <<calls, health, probing, ticks, writer, loop, caller, worker>>

\* The range is exhausted: on to the second loop.
pingAllRangeEnd ==
    /\ pinger.pc = "range"
    /\ pinger.j > pinger.len
    /\ pinger' = [pinger EXCEPT !.pc = "wait"]
    /\ UNCHANGED <<calls, health, probing, ticks, probe, writer, loop, caller, worker>>

\* c <- true in the goroutine of node n, after its pingAndSet has returned.
pingAllSend(n) ==
    /\ probe[1][n].pc = "done"
    /\ pinger.pc \in {"range", "wait"}
    /\ pinger.c < pinger.len
    /\ probe' = [probe EXCEPT ![1][n].pc = "sent"]
    /\ pinger' = [pinger EXCEPT !.c = @ + 1]
    /\ UNCHANGED <<calls, health, probing, ticks, writer, loop, caller, worker>>

\* One iteration of the second loop: i < cap(c), and <-c takes a value.
pingAllReceive ==
    /\ pinger.pc = "wait"
    /\ pinger.i < pinger.len
    /\ pinger.c > 0
    /\ pinger' = [pinger EXCEPT !.c = @ - 1, !.i = @ + 1]
    /\ UNCHANGED <<calls, health, probing, ticks, probe, writer, loop, caller, worker>>

\* A slip in pingAll: the second loop stops one receive short.
pingAllReturnsOneShort ==
    /\ pinger.pc = "wait"
    /\ pinger.i >= pinger.len - 1
    /\ pinger' = [pinger EXCEPT !.pc = "returned"]
    /\ UNCHANGED <<calls, health, probing, ticks, probe, writer, loop, caller, worker>>

\* A slip in pingAll: the second loop tests its condition after the receive
\* (a do-while), so that it receives once even from no task.
pingAllReceivesFirst ==
    /\ pinger.pc = "wait"
    /\ pinger.i >= pinger.len
    /\ pinger.i > 0
    /\ pinger' = [pinger EXCEPT !.pc = "returned"]
    /\ UNCHANGED <<calls, health, probing, ticks, probe, writer, loop, caller, worker>>

\* The second loop ends with i = cap(c), and pingAll returns.
pingAllReturn ==
    /\ pinger.pc = "wait"
    /\ pinger.i >= pinger.len
    /\ pinger' = [pinger EXCEPT !.pc = "returned"]
    /\ UNCHANGED <<calls, health, probing, ticks, probe, writer, loop, caller, worker>>

\* ------------------------------------------------- cluster.go: Cluster.loop
\* pingAll: one pingAndSet goroutine per node.  How many tasks are in flight
\* is not counted: every handled tick adds one per node, and a Ping may take
\* arbitrarily long, so once a tick was handled any node may have one.
pingAll == probing' = TRUE

\* ticker := time.Tick(c.pingInterval), and on to the select.
LoopStart ==
    /\ loop.pc = "start"
    /\ loop' = LoopAt("select")
    /\ UNCHANGED <<calls, health, probing, tasks, caller, worker>>

\* case <-ticker: go c.nodes.pingAll()
LoopTick ==
    /\ loop.pc = "select"
    /\ pingAll
    /\ UNCHANGED <<calls, health, tasks, loop, caller, worker>>

\* case <-ticker: go c.nodes.pingAll(), with the call of pingAll followed
\* step by step: c := make(chan bool, len(n)), and on to the range.  One call
\* is followed at a time.
LoopTickPingAll ==
    /\ loop.pc = "select"
    /\ pinger.pc \in {"none", "returned"}
    /\ pinger' = [NoPingAll EXCEPT !.pc = "range", !.len = Len(health)]
    /\ pingAll
    /\ UNCHANGED <<calls, health, ticks, probe, writer, loop, caller, worker>>

\* A slip in the loop: only the bundle of the caller that arrived first is
\* taken.
LoopReceiveInOrder(c, kind) ==
    /\ loop.pc = "select"
    /\ caller[c].pc = "sending"
    /\ caller[c].kind = kind
    /\ caller[c].ticket = 1
    /\ loop' = [LoopAt("getBest") EXCEPT !.b = c, !.kind = kind]
    /\ caller' = Taken(c, "waiting")
    /\ UNCHANGED <<calls, health, probing, tasks, worker>>

\* A slip in the Cluster: bundles are taken by a receiver that does not wait
\* for the handling of the previous event to end.
LoopReceiveAnyTime(c, kind) ==
    /\ loop.pc \notin {"start", "stopped"}
    /\ caller[c].pc = "sending"
    /\ caller[c].kind = kind
    /\ loop' = [LoopAt("getBest") EXCEPT !.b = c, !.kind = kind]
    /\ caller' = Taken(c, "waiting")
    /\ UNCHANGED <<calls, health, probing, tasks, worker>>

\* The loop takes caller c's bundle from the intake channel of `kind` and
\* enters getBest; the caller's send completes and it goes on to its select.
LoopReceive(c, kind) ==
    /\ loop.pc = "select"
    /\ caller[c].pc = "sending"
    /\ caller[c].kind = kind
    /\ loop' = [LoopAt("getBest") EXCEPT !.b = c, !.kind = kind]
    /\ caller' = Taken(c, "waiting")
    /\ UNCHANGED <<calls, health, probing, tasks, worker>>

\* A slip in the loop: pingAll is called without the go statement, and the
\* loop waits for it.
LoopTickTasksWaits ==
    /\ loop.pc = "select"
    /\ ticks + 1 \in DOMAIN probe
    /\ ticks' = ticks + 1
    /\ probe' = [probe EXCEPT ![ticks + 1] =
                   [n \in Nodes |-> [IdleTask EXCEPT !.pc = "ping"]]]
    /\ pingAll
    /\ loop' = LoopAt("pingAll")
    /\ UNCHANGED <<calls, health, writer, pinger, caller, worker>>

\* case <-ticker: go c.nodes.pingAll(), with the tasks of this cycle followed
\* one by one: a pingAndSet goroutine per node, each starting with its Ping.
LoopTickTasks ==
    /\ loop.pc = "select"
    /\ ticks + 1 \in DOMAIN probe
    /\ ticks' = ticks + 1
    /\ probe' = [probe EXCEPT ![ticks + 1] =
                   [n \in Nodes |-> [IdleTask EXCEPT !.pc = "ping"]]]
    /\ pingAll
    /\ UNCHANGED <<calls, health, writer, pinger, loop, caller, worker>>

\* case b := <-c.searchBundles
LoopSearchBundle(c) == LoopReceive(c, "search")

\* case b := <-c.multiSearchBundles
LoopMultiSearchBundle(c) == LoopReceive(c, "msearch")

\* go sendSearchBundle(node, b) (or its MultiSearch twin), then back to the
\* select.
LoopGo ==
    /\ loop.pc = "go"
    /\ worker' = [worker EXCEPT ![loop.b] =
                    [NoWorker EXCEPT !.pc = "exec", !.node = loop.node]]
    /\ loop' = LoopAt("select")
    /\ UNCHANGED <<calls, health, probing, tasks, caller>>

\* A slip in the loop: return where the code has continue.
LoopSendErrReturns(c) ==
    /\ loop.pc = "sendErr"
    /\ caller[c].pc = "waiting"
    /\ c = loop.b
    /\ caller' = [caller EXCEPT ![c] = SearchReturn(c, NoHealthyNodes(c), TRUE)]
    /\ loop' = LoopAt("stopped")
    /\ UNCHANGED <<calls, health, probing, tasks, worker>>

\* b.err <- err; continue.  The send completes when the caller that selects
\* on this bundle's err channel takes the value.
LoopSendErr(c) ==
    /\ loop.pc = "sendErr"
    /\ caller[c].pc = "waiting"
    /\ Bundle(c).err = Bundle(loop.b).err
    /\ caller' = [caller EXCEPT ![c] =
                    SearchReturn(c, NoHealthyNodes(Bundle(loop.b).request), TRUE)]
    /\ loop' = LoopAt("select")
    /\ UNCHANGED <<calls, health, probing, tasks, worker>>

\* A slip in the loop: the shutdown channel is read only once a tick has
\* been handled.
LoopShutdownAfterTick(c) ==
    /\ probing
    /\ loop.pc = "select"
    /\ caller[c].pc = "sending"
    /\ caller[c].kind = "shutdown"
    /\ loop' = [LoopAt("ack") EXCEPT !.b = c, !.kind = "shutdown"]
    /\ caller' = Taken(c, "waitack")
    /\ UNCHANGED <<calls, health, probing, tasks, worker>>

\* case q := <-c.shutdown: the caller's send completes, it goes on to <-q.
LoopShutdown(c) ==
    /\ loop.pc = "select"
    /\ caller[c].pc = "sending"
    /\ caller[c].kind = "shutdown"
    /\ loop' = [LoopAt("ack") EXCEPT !.b = c, !.kind = "shutdown"]
    /\ caller' = Taken(c, "waitack")
    /\ UNCHANGED <<calls, health, probing, tasks, worker>>

\* A slip in the loop: the return after q <- true is missing.
LoopAckNoReturn(c) ==
    /\ loop.pc = "ack"
    /\ loop.b = c
    /\ caller[c].pc = "waitack"
    /\ loop' = LoopAt("select")
    /\ caller' = [caller EXCEPT ![c].pc = "returned"]
    /\ UNCHANGED <<calls, health, probing, tasks, worker>>

\* A slip in the loop: the acknowledgement of a Shutdown also stops the
\* bundle goroutines that are still running.
LoopAckCancelsWorkers(c) ==
    /\ loop.pc = "ack"
    /\ loop.b = c
    /\ caller[c].pc = "waitack"
    /\ loop' = LoopAt("stopped")
    /\ caller' = [caller EXCEPT ![c].pc = "returned"]
    /\ worker' = [w \in Callers |->
                    IF worker[w].pc \in {"exec", "send"} THEN NoWorker ELSE worker[w]]
    /\ UNCHANGED <<calls, health, probing, tasks>>

\* A slip in the loop: on its way out it fails the calls that are still
\* blocked in their send on an intake channel.
LoopAckReleasesSenders(c) ==
    /\ loop.pc = "ack"
    /\ loop.b = c
    /\ caller[c].pc = "waitack"
    /\ loop' = LoopAt("stopped")
    /\ caller' = [d \in Callers |->
                    IF d = c THEN [caller[d] EXCEPT !.pc = "returned"]
                    ELSE IF caller[d].pc = "sending"
                    THEN [caller[d] EXCEPT !.pc = "returned", !.ticket = 0,
                                           !.result = [response |-> ZeroResponse,
                                                       err |-> NoHealthyNodes(d)]]
                    ELSE caller[d]]
    /\ UNCHANGED <<calls, health, probing, tasks, worker>>

\* A slip in the loop: on its way out it stops the pingAndSet tasks that are
\* still running.
LoopAckCancelsProbes(c) ==
    /\ loop.pc = "ack"
    /\ loop.b = c
    /\ caller[c].pc = "waitack"
    /\ loop' = LoopAt("stopped")
    /\ caller' = [caller EXCEPT ![c].pc = "returned"]
    /\ probe' = [k \in DOMAIN probe |->
                   [n \in Nodes |->
                      IF probe[k][n].pc \in {"ping", "set"}
                      THEN [IdleTask EXCEPT !.pc = "done"] ELSE probe[k][n]]]
    /\ writer' = [n \in Nodes |-> NoTask]
    /\ UNCHANGED <<calls, health, probing, ticks, pinger, worker>>

\* q <- true; return.  Shutdown's <-q takes the value and Shutdown returns.
LoopAck(c) ==
    /\ loop.pc = "ack"
    /\ loop.b = c
    /\ caller[c].pc = "waitack"
    /\ loop' = LoopAt("stopped")
    /\ caller' = [caller EXCEPT ![c].pc = "returned"]
    /\ UNCHANGED <<calls, health, probing, tasks, worker>>

\* ------------------------------------- cluster.go: the bundle's goroutine
\* A slip in the worker: an execution that fails is tried again on the next
\* node.
NodeExecuteFailsOver(w, kind) ==
    /\ worker[w].pc = "exec"
    /\ caller[w].kind = kind
    /\ \E ok \in BOOLEAN :
          worker' = [worker EXCEPT ![w] =
                       IF ok
                       THEN [@ EXCEPT !.pc = "send",
                                      !.out = Response(Bundle(w).request, worker[w].node)]
                       ELSE [@ EXCEPT !.node = (worker[w].node % NumNodes) + 1]]
    /\ UNCHANGED <<calls, health, probing, tasks, loop, caller>>

\* A slip in the worker: an execution that fails degrades the health of the
\* node that served it.
NodeExecuteDegrades(w, kind) ==
    /\ worker[w].pc = "exec"
    /\ caller[w].kind = kind
    /\ \E ok \in BOOLEAN :
          /\ worker' = [worker EXCEPT ![w] =
                          [@ EXCEPT !.pc = "send",
                                    !.out = IF ok THEN Response(Bundle(w).request, worker[w].node)
                                            ELSE ExecError(Bundle(w).request, worker[w].node)]]
          /\ health' = IF ok THEN health
                       ELSE [health EXCEPT ![worker[w].node] = Degrade(@)]
    /\ UNCHANGED <<calls, probing, tasks, loop, caller>>

\* Node.Search / Node.MultiSearch returns to the worker: a decoded response,
\* or the error of the transport or of the decoder.
NodeExecute(w, kind) ==
    /\ worker[w].pc = "exec"
    /\ caller[w].kind = kind
    /\ \E ok \in BOOLEAN :
          worker' = [worker EXCEPT ![w] =
                       [@ EXCEPT !.pc = "send",
                                 !.out = IF ok THEN Response(Bundle(w).request, worker[w].node)
                                         ELSE ExecError(Bundle(w).request, worker[w].node)]]
    /\ UNCHANGED <<calls, health, probing, tasks, loop, caller>>

\* A slip in the worker: the return after b.err <- err is missing, and the
\* worker goes on to b.response <- response.
BundleSendNoReturn(w, c, kind) ==
    /\ worker[w].pc = "send"
    /\ caller[w].kind = kind
    /\ caller[c].pc = "waiting"
    /\ LET onErr == worker[w].out.tag # "response" IN
         /\ IF onErr THEN Bundle(w).err = Bundle(c).err
                     ELSE Bundle(w).response = Bundle(c).response
         /\ caller' = [caller EXCEPT ![c] = SearchReturn(c, worker[w].out, onErr)]
         /\ worker' = [worker EXCEPT ![w] =
                         IF onErr THEN [@ EXCEPT !.out = ZeroResponse]
                         ELSE [@ EXCEPT !.pc = "done"]]
    /\ UNCHANGED <<calls, health, probing, tasks, loop>>

\* b.err <- err or b.response <- response: the caller that selects on that
\* channel takes the value and returns.
\* A slip in Search / MultiSearch: the caller receives from b.response
\* only, so that nobody takes what is sent on b.err by a worker.
BundleSendResponseOnly(w, c, kind) ==
    /\ worker[w].pc = "send"
    /\ caller[w].kind = kind
    /\ caller[c].pc = "waiting"
    /\ worker[w].out.tag = "response"
    /\ Bundle(w).response = Bundle(c).response
    /\ caller' = [caller EXCEPT ![c] = SearchReturn(c, worker[w].out, FALSE)]
    /\ worker' = [worker EXCEPT ![w].pc = "done"]
    /\ UNCHANGED <<calls, health, probing, tasks, loop>>

BundleSend(w, c, kind) ==
    /\ worker[w].pc = "send"
    /\ caller[w].kind = kind
    /\ caller[c].pc = "waiting"
    /\ LET onErr == worker[w].out.tag # "response" IN
         /\ IF onErr THEN Bundle(w).err = Bundle(c).err
                     ELSE Bundle(w).response = Bundle(c).response
         /\ caller' = [caller EXCEPT ![c] = SearchReturn(c, worker[w].out, onErr)]
    /\ worker' = [worker EXCEPT ![w].pc = "done"]
    /\ UNCHANGED <<calls, health, probing, tasks, loop>>

sendSearchBundle(w) ==
    \/ NodeExecute(w, "search")
    \/ \E c \in Callers : BundleSend(w, c, "search")

sendMultiSearchBundle(w) ==
    \/ NodeExecute(w, "msearch")
    \/ \E c \in Callers : BundleSend(w, c, "msearch")

\* -------------------------------------- requests.go: SearchRequest.Path
\* strings.Join: the elements in their order, sep between neighbours.
RECURSIVE Join(_, _)
Join(a, sep) ==
    IF Len(a) = 0 THEN ""
    ELSE IF Len(a) = 1 THEN a[1]
    ELSE a[1] \o sep \o Join(Tail(a), sep)

\* A slip in Path: the case of types without indices lacks "/_all".
PathTypesWithoutAll(r) ==
    IF Len(r.Indices) = 0 /\ Len(r.Types) = 0 THEN "/_search"
    ELSE IF Len(r.Indices) > 0 /\ Len(r.Types) = 0
    THEN "/" \o Join(r.Indices, ",") \o "/_search"
    ELSE IF Len(r.Indices) = 0 /\ Len(r.Types) > 0
    THEN "/" \o Join(r.Types, ",") \o "/_search"
    ELSE IF Len(r.Indices) > 0 /\ Len(r.Types) > 0
    THEN "/" \o Join(r.Indices, ",") \o "/" \o Join(r.Types, ",") \o "/_search"
    ELSE "panic: unreachable"

\* SearchRequest.Path: the switch, case by case in its order, and the panic
\* after it.
Path(r) ==
    IF Len(r.Indices) = 0 /\ Len(r.Types) = 0 THEN "/_search"
    ELSE IF Len(r.Indices) > 0 /\ Len(r.Types) = 0
    THEN "/" \o Join(r.Indices, ",") \o "/_search"
    ELSE IF Len(r.Indices) = 0 /\ Len(r.Types) > 0
    THEN "/_all/" \o Join(r.Types, ",") \o "/_search"
    ELSE IF Len(r.Indices) > 0 /\ Len(r.Types) > 0
    THEN "/" \o Join(r.Indices, ",") \o "/" \o Join(r.Types, ",") \o "/_search"
    ELSE "panic: unreachable"

\* The requests Path is called on: lists of up to MaxNames names, repeated
\* names and every order included.
IndexNames == {"i1", "i2"}
TypeNames == {"t1", "t2", "t3"}
Lists(names) == UNION {[1..k -> names] : k \in 0..MaxNames}
SearchRequests == [Indices : Lists(IndexNames), Types : Lists(TypeNames)]

\* r.Path() on the request at hand.
SearchRequestPath ==
    /\ path = NoPath
    /\ path' = Path(request)
    /\ UNCHANGED <<request, bodyCall, itemCall, health, probing, tasks, loop, caller, worker>>

\* ----------- requests.go: MultiSearchRequest.Request, BulkRequest.Request
\* encoding/json.  A Go value handed over as Source or Query is a map of one
\* string to one string, or a value json cannot encode (a channel).
GoMap(k, v) == [type |-> "map", key |-> k, val |-> v]
GoChan == [type |-> "chan", key |-> "", val |-> ""]
NoSource == [type |-> "none", key |-> "", val |-> ""]

NilError == "nil"
UnsupportedType == "json: unsupported type: chan int"

Quote(s) == "\"" \o s \o "\""

RECURSIVE QuoteAll(_)
QuoteAll(a) == IF Len(a) = 0 THEN <<>> ELSE <<Quote(a[1])>> \o QuoteAll(Tail(a))

\* json.Marshal of a []string, of a field of a struct, of an object.
MarshalStrings(a) == "[" \o Join(QuoteAll(a), ",") \o "]"
MarshalField(name, text) == Quote(name) \o ":" \o text
MarshalObject(fields) == "{" \o Join(fields, ",") \o "}"

\* json.Marshal of a Source or Query value.
MarshalValue(v) == MarshalObject(<<MarshalField(v.key, Quote(v.val))>>)

\* json.Marshal of SearchParams: index and type have omitempty.
MarshalSearchParams(p) ==
    MarshalObject(
       (IF Len(p.Indices) > 0 THEN <<MarshalField("index", MarshalStrings(p.Indices))>>
        ELSE <<>>)
       \o (IF Len(p.Types) > 0 THEN <<MarshalField("type", MarshalStrings(p.Types))>>
           ELSE <<>>))

\* json.Marshal of IndexParams with its optional fields empty.
MarshalIndexParams(p) ==
    MarshalObject(<<MarshalField("_index", Quote(p.Index)),
                    MarshalField("_type", Quote(p.Type)),
                    MarshalField("_id", Quote(p.Id))>>)

\* enc.Encode: the JSON text and a newline are written to the buffer, or
\* nothing is written and the error is returned.
Encode(buf, ok, text) ==
    IF ok THEN [buf |-> buf \o text \o "\n", err |-> NilError]
    ELSE [buf |-> buf, err |-> UnsupportedType]

\* SearchRequest.EncodeMultiHeader and SearchRequest.EncodeQuery.
EncodeMultiHeader(r, buf) == Encode(buf, TRUE, MarshalSearchParams(r.Params))

EncodeQuery(r, buf) == Encode(buf, r.Query.type = "map", MarshalValue(r.Query))

\* EncodeBulkHeader of IndexRequest, CreateRequest and DeleteRequest: the
\* params under the key of the operation.
EncodeBulkHeader(r, buf) ==
    Encode(buf, TRUE, MarshalObject(<<MarshalField(r.op, MarshalIndexParams(r.Params))>>))

\* EncodeSource: of IndexRequest and CreateRequest the encoded Source, of
\* DeleteRequest nothing.
EncodeSource(r, buf) ==
    IF r.op = "delete" THEN [buf |-> buf, err |-> NilError]
    ELSE Encode(buf, r.Source.type = "map", MarshalValue(r.Source))

\* http.NewRequest, and the return of nil with an error.
NewRequest(method, urlPath, buf) ==
    [request |-> [Method |-> method, Path |-> urlPath, Body |-> buf], err |-> NilError]

NilRequest(err) == [request |-> [Method |-> "nil", Path |-> "", Body |-> ""], err |-> err]

\* A slip in MultiSearchRequest.Request: the query is encoded before the header.
RECURSIVE MultiSearchRangeQueryFirst(_, _, _)
MultiSearchRangeQueryFirst(reqs, i, buf) ==
    IF i > Len(reqs) THEN NewRequest("GET", "/_msearch", buf)
    ELSE LET q == EncodeQuery(reqs[i], buf) IN
         IF q.err # NilError THEN NilRequest(q.err)
         ELSE LET h == EncodeMultiHeader(reqs[i], q.buf) IN
              IF h.err # NilError THEN NilRequest(h.err)
              ELSE MultiSearchRangeQueryFirst(reqs, i + 1, h.buf)

\* MultiSearchRequest.Request from the i-th sub-request on, with buf written
\* so far: the range loop and the return after it.
RECURSIVE MultiSearchRange(_, _, _)
MultiSearchRange(reqs, i, buf) ==
    IF i > Len(reqs) THEN NewRequest("GET", "/_msearch", buf)
    ELSE LET h == EncodeMultiHeader(reqs[i], buf) IN
         IF h.err # NilError THEN NilRequest(h.err)
         ELSE LET q == EncodeQuery(reqs[i], h.buf) IN
              IF q.err # NilError THEN NilRequest(q.err)
              ELSE MultiSearchRange(reqs, i + 1, q.buf)

MultiSearchRequestRequest(r) == MultiSearchRange(r.Requests, 1, "")

\* BulkRequest.Request from the i-th sub-request on.
RECURSIVE BulkRange(_, _, _)
BulkRange(reqs, i, buf) ==
    IF i > Len(reqs) THEN NewRequest("PUT", "/_bulk", buf)
    ELSE LET h == EncodeBulkHeader(reqs[i], buf) IN
         IF h.err # NilError THEN NilRequest(h.err)
         ELSE LET s == EncodeSource(reqs[i], h.buf) IN
              IF s.err # NilError THEN NilRequest(s.err)
              ELSE BulkRange(reqs, i + 1, s.buf)

BulkRequestRequest(r) == BulkRange(r.Requests, 1, "")

\* The sub-requests Request is called with: up to MaxRequests of them, in
\* every order, repetitions included.
Ids == {"1", "2"}
Sources == {GoMap("user", "kimchy"), GoMap("user", "kimchy2"), GoChan}
Queries == {GoMap("query", "1"), GoMap("query", "2"), GoChan}
BulkIndexables ==
    [op : {"index", "create"},
     Params : [Index : {"twitter"}, Type : {"tweet"}, Id : Ids],
     Source : Sources]
    \cup [op : {"delete"},
          Params : [Index : {"twitter"}, Type : {"tweet"}, Id : Ids],
          Source : {NoSource}]
MultiSearchables ==
    [Params : [Indices : {<<>>, <<"i1">>, <<"i1", "i2">>}, Types : {<<>>, <<"t1">>}],
     Query : Queries]
Batches ==
    [kind : {"bulk"}, Requests : UNION {[1..k -> BulkIndexables] : k \in 0..MaxRequests}]
    \cup [kind : {"msearch"},
          Requests : UNION {[1..k -> MultiSearchables] : k \in 0..MaxRequests}]

\* r.Request(uri) on the BulkRequest at hand.
BulkRequestCall ==
    /\ batch.kind = "bulk"
    /\ built = NotBuilt
    /\ built' = BulkRequestRequest(batch)
    /\ UNCHANGED <<batch, pathCall, itemCall, health, probing, tasks, loop, caller, worker>>

\* r.Request(uri) on the MultiSearchRequest at hand.
MultiSearchRequestCall ==
    /\ batch.kind = "msearch"
    /\ built = NotBuilt
    /\ built' = MultiSearchRequestRequest(batch)
    /\ UNCHANGED <<batch, pathCall, itemCall, health, probing, tasks, loop, caller, worker>>

\* ----------- src/unnamed/part_001: BulkItemResponse.UnmarshalJSON
\* The JSON values a key of the wrapper object can have: an object with _id
\* and ok, a string, null.  Absent stands for a key the object does not have.
JSONObject(id, ok) == [type |-> "object", id |-> id, ok |-> ok]
JSONString == [type |-> "string", id |-> "", ok |-> FALSE]
JSONNull == [type |-> "null", id |-> "", ok |-> FALSE]

SyntaxError == "invalid character"
ExpectedOperation == "expected bulk response to be create, index, or delete"
CannotUnmarshal == "json: cannot unmarshal string into Go value of type elasticsearch.IndexResponse"

\* json.Unmarshal into a json.RawMessage field of the wrapper: the field
\* stays nil for a key that is absent and gets the text of the value
\* otherwise, the text null included.
RawMessage(member) == IF member.type = "absent" THEN [nil |-> TRUE, text |-> Absent]
                      ELSE [nil |-> FALSE, text |-> member]

\* json.Unmarshal(inner, (*IndexResponse)(r)) on a fresh r: an object fills
\* the fields by their json tags, null leaves r as it is, anything else is
\* an error.
UnmarshalIndexResponse(inner) ==
    IF inner.type = "object"
    THEN [response |-> [ID |-> inner.id, OK |-> inner.ok], err |-> NilError]
    ELSE IF inner.type = "null" THEN [response |-> ZeroIndexResponse, err |-> NilError]
    ELSE [response |-> ZeroIndexResponse, err |-> CannotUnmarshal]

\* A slip in UnmarshalJSON: the cases of the switch are in the order of the
\* wrapper's fields, Create, Delete, Index.
UnmarshalJSONDeleteBeforeIndex(d) ==
    IF d.json # "object" THEN [response |-> ZeroIndexResponse, err |-> SyntaxError]
    ELSE LET wrapper == [Create |-> RawMessage(d.create),
                         Delete |-> RawMessage(d.delete),
                         Index |-> RawMessage(d.index)]
         IN IF ~wrapper.Create.nil THEN UnmarshalIndexResponse(wrapper.Create.text)
            ELSE IF ~wrapper.Delete.nil THEN UnmarshalIndexResponse(wrapper.Delete.text)
            ELSE IF ~wrapper.Index.nil THEN UnmarshalIndexResponse(wrapper.Index.text)
            ELSE [response |-> ZeroIndexResponse, err |-> ExpectedOperation]

\* BulkItemResponse.UnmarshalJSON: the wrapper is decoded, the switch takes
\* the first non-nil of Create, Index, Delete, and the inner text is decoded
\* into the item.
UnmarshalJSON(d) ==
    IF d.json # "object" THEN [response |-> ZeroIndexResponse, err |-> SyntaxError]
    ELSE LET wrapper == [Create |-> RawMessage(d.create),
                         Delete |-> RawMessage(d.delete),
                         Index |-> RawMessage(d.index)]
         IN IF ~wrapper.Create.nil THEN UnmarshalIndexResponse(wrapper.Create.text)
            ELSE IF ~wrapper.Index.nil THEN UnmarshalIndexResponse(wrapper.Index.text)
            ELSE IF ~wrapper.Delete.nil THEN UnmarshalIndexResponse(wrapper.Delete.text)
            ELSE [response |-> ZeroIndexResponse, err |-> ExpectedOperation]

\* The texts UnmarshalJSON is called with: a text that is no JSON, and the
\* objects with any of the keys create, index, delete and update.
Members == {Absent, JSONObject("1", TRUE), JSONObject("2", FALSE), JSONString, JSONNull}
Texts ==
    [json : {"object"}, create : Members, index : Members, delete : Members,
     update : {Absent, JSONObject("1", TRUE)}]
    \cup {[NoData EXCEPT !.json = "malformed"]}

\* r.UnmarshalJSON(data) on the text at hand.
UnmarshalJSONCall ==
    /\ item = NoItem
    /\ item' = UnmarshalJSON(data)
    /\ UNCHANGED <<data, pathCall, bodyCall, health, probing, tasks, loop, caller, worker>>

\* ------------------------------------------------------- specifications
Next ==
    \/ \E c \in Callers : Search(c)
    \/ \E c \in Callers : MultiSearch(c)
    \/ \E c \in Callers : Shutdown(c)
    \/ LoopStart
    \/ LoopTick
    \/ \E c \in Callers : LoopSearchBundle(c)
    \/ \E c \in Callers : LoopMultiSearchBundle(c)
    \/ getBest
    \/ LoopGo
    \/ \E c \in Callers : LoopSendErr(c)
    \/ \E c \in Callers : LoopShutdown(c)
    \/ \E c \in Callers : LoopAck(c)
    \/ \E w \in Callers : sendSearchBundle(w)
    \/ \E w \in Callers : sendMultiSearchBundle(w)
    \/ \E n \in Nodes : pingAndSet(n)

Spec == Init /\ [][Next]_vars

\* What the loop goroutine does apart from taking a tick, and what the
\* bundle goroutines do.  The Go scheduler runs a goroutine that can run; a
\* tick comes when the interval has passed, a Ping returns when it returns.
LoopWork ==
    \/ LoopStart
    \/ \E c \in Callers : LoopSearchBundle(c)
    \/ \E c \in Callers : LoopMultiSearchBundle(c)
    \/ getBest
    \/ LoopGo
    \/ \E c \in Callers : LoopSendErr(c)
    \/ \E c \in Callers : LoopShutdown(c)
    \/ \E c \in Callers : LoopAck(c)

WorkerWork ==
    \/ \E w \in Callers : sendSearchBundle(w)
    \/ \E w \in Callers : sendMultiSearchBundle(w)

\* The Cluster with the loop goroutine scheduled fairly; no node execution
\* and no Ping has to return, and no tick has to come.
ShutdownFairSpec == Init /\ [][Next]_vars /\ WF_vars(LoopWork)

\* The Cluster with the bundle goroutines scheduled fairly and every node
\* execution returning, with a response or with an error.  The loop need not
\* run, no tick has to come, and any caller may call Shutdown.
WorkerFairSpec == Init /\ [][Next]_vars /\ WF_vars(WorkerWork)

\* The Cluster on which nobody calls Shutdown, with the loop and the bundle
\* goroutines scheduled fairly and every node execution returning.
LiveNext ==
    \/ \E c \in Callers : Search(c)
    \/ \E c \in Callers : MultiSearch(c)
    \/ LoopStart
    \/ LoopTick
    \/ \E c \in Callers : LoopSearchBundle(c)
    \/ \E c \in Callers : LoopMultiSearchBundle(c)
    \/ getBest
    \/ LoopGo
    \/ \E c \in Callers : LoopSendErr(c)
    \/ \E w \in Callers : sendSearchBundle(w)
    \/ \E w \in Callers : sendMultiSearchBundle(w)
    \/ \E n \in Nodes : pingAndSet(n)

LiveSpec == Init /\ [][LiveNext]_vars /\ WF_vars(LoopWork) /\ WF_vars(WorkerWork)

\* The probe side alone, its tasks followed one by one: the Cluster at a moment
\* when no pingAndSet is in flight, with whatever health earlier probes have
\* left, and the ticks and tasks from there on.
ProbeInit ==
    /\ health \in [Nodes -> Health]
    /\ probing = TRUE
    /\ ticks = 0
    /\ probe = [k \in Cycles |-> [n \in Nodes |-> IdleTask]]
    /\ writer = [n \in Nodes |-> NoTask]
    /\ loop = LoopAt("select")
    /\ caller = [c \in Callers |-> IdleCaller]
    /\ worker = [c \in Callers |-> NoWorker]
    /\ pinger = NoPingAll
    /\ NoCalls

ProbeNext ==
    \/ LoopTickTasks
    \/ \E k \in Cycles, n \in Nodes : pingAndSetLock(k, n)
    \/ \E k \in Cycles, n \in Nodes : pingAndSetStore(k, n)

ProbeSpec == ProbeInit /\ [][ProbeNext]_vars

\* The Cluster with the pingAndSet tasks of its ticks followed one by one and
\* the node locks in play.  The loop goroutine is scheduled fairly, and so is
\* a task that holds a node's lock, which has only its assignment and its
\* Unlock left to do.  No Ping and no node execution has to return.
LockWork == \E k \in Cycles, n \in Nodes : pingAndSetStore(k, n)

TasksNext ==
    \/ \E c \in Callers : Search(c)
    \/ \E c \in Callers : MultiSearch(c)
    \/ \E c \in Callers : Shutdown(c)
    \/ LoopStart
    \/ LoopTickTasks
    \/ \E c \in Callers : LoopSearchBundle(c)
    \/ \E c \in Callers : LoopMultiSearchBundle(c)
    \/ getBest
    \/ LoopGo
    \/ \E c \in Callers : LoopSendErr(c)
    \/ \E c \in Callers : LoopShutdown(c)
    \/ \E c \in Callers : LoopAck(c)
    \/ \E w \in Callers : sendSearchBundle(w)
    \/ \E w \in Callers : sendMultiSearchBundle(w)
    \/ \E k \in Cycles, n \in Nodes : pingAndSetLock(k, n)
    \/ \E k \in Cycles, n \in Nodes : pingAndSetStore(k, n)

TasksSpec == Init /\ [][TasksNext]_vars /\ WF_vars(LoopWork) /\ WF_vars(LockWork)

\* One node's lock under contention: MaxWriters ticks have been handled, the
\* pingAndSet tasks of one node are all still in their Ping and those of the
\* other nodes have ended, the nodes have whatever health earlier probes left,
\* and the loop has taken a bundle and is entering getBest.  From there the
\* tasks and getBest run in any order.
Writers == 1..MaxWriters

LockInit ==
    /\ health \in [Nodes -> Health]
    /\ probing = TRUE
    /\ ticks = MaxWriters
    /\ \E m \in Nodes :
          probe = [k \in Writers |->
                     [n \in Nodes |-> [IdleTask EXCEPT !.pc = IF n = m THEN "ping"
                                                              ELSE "done"]]]
    /\ writer = [n \in Nodes |-> NoTask]
    /\ loop = [LoopAt("getBest") EXCEPT !.b = 1, !.kind = "search"]
    /\ caller = [c \in Callers |->
                   IF c = 1 THEN [IdleCaller EXCEPT !.pc = "waiting", !.kind = "search"]
                   ELSE IdleCaller]
    /\ worker = [c \in Callers |-> NoWorker]
    /\ pinger = NoPingAll
    /\ NoCalls

LockNext ==
    \/ getBest
    \/ \E k \in Writers, n \in Nodes : pingAndSetLock(k, n)
    \/ \E k \in Writers, n \in Nodes : pingAndSetStore(k, n)

LockSpec == LockInit /\ [][LockNext]_vars

\* A request admitted before any probe has completed: NewCluster has
\* returned, the loop has handled some ticks (none, or up to MaxTicks), the
\* pingAndSet tasks of those ticks are all still in their Ping, and the loop
\* has just taken the bundle of caller 1 and is entering getBest.  From there
\* the selection, the tasks and the worker run in any order.
FreshInit ==
    /\ health = [n \in Nodes |-> NewNode(n)]
    /\ \E t \in 0..MaxTicks :
          /\ ticks = t
          /\ probing = (t > 0)
          /\ probe = [k \in Cycles |->
                        [n \in Nodes |->
                           [IdleTask EXCEPT !.pc = IF k <= t THEN "ping" ELSE "idle"]]]
    /\ writer = [n \in Nodes |-> NoTask]
    /\ loop = [LoopAt("getBest") EXCEPT !.b = 1, !.kind = "search"]
    /\ caller = [c \in Callers |->
                   IF c = 1 THEN [IdleCaller EXCEPT !.pc = "waiting", !.kind = "search"]
                   ELSE IdleCaller]
    /\ worker = [c \in Callers |-> NoWorker]
    /\ pinger = NoPingAll
    /\ NoCalls

FreshNext ==
    \/ getBest
    \/ LoopGo
    \/ \E c \in Callers : LoopSendErr(c)
    \/ LoopTickTasks
    \/ \E w \in Callers : sendSearchBundle(w)
    \/ \E k \in Cycles, n \in Nodes : pingAndSetLock(k, n)
    \/ \E k \in Cycles, n \in Nodes : pingAndSetStore(k, n)

FreshSpec == FreshInit /\ [][FreshNext]_vars

\* One probe interval with overlapping cycles: MaxWriters ticks have been
\* handled, the last of them just now, and every node is Green.  The
\* pingAndSet tasks of one node are all still in their Ping (its endpoint has
\* stopped answering); of every other node the tasks of the earlier ticks
\* have ended and the task of the last tick is in its Ping.  No further tick
\* is handled: every step from here is within the interval that the last
\* tick began.
OverlapInit ==
    /\ \E m \in Nodes :
          probe = [k \in Writers |->
                     [n \in Nodes |->
                        [IdleTask EXCEPT !.pc = IF n = m \/ k = MaxWriters
                                                THEN "ping" ELSE "done"]]]
    /\ health = [n \in Nodes |-> Green]
    /\ probing = TRUE
    /\ ticks = MaxWriters
    /\ writer = [n \in Nodes |-> NoTask]
    /\ loop = LoopAt("select")
    /\ caller = [c \in Callers |-> IdleCaller]
    /\ worker = [c \in Callers |-> NoWorker]
    /\ pinger = NoPingAll
    /\ NoCalls

OverlapNext ==
    \/ \E k \in Writers, n \in Nodes : pingAndSetLock(k, n)
    \/ \E k \in Writers, n \in Nodes : pingAndSetStore(k, n)

OverlapSpec == OverlapInit /\ [][OverlapNext]_vars

\* A Cluster every endpoint of which failed its first probe, when the first
\* probe cycle has just completed: each node's health is Degrade of the
\* health NewNode gave it, no request has been made yet, and MaxTicks further
\* ticks can be handled.
DownInit ==
    /\ health = [n \in Nodes |-> Degrade(NewNode(n))]
    /\ probing = TRUE
    /\ ticks = 1
    /\ probe = [k \in 1..(MaxTicks + 1) |->
                  [n \in Nodes |-> [IdleTask EXCEPT !.pc = IF k = 1 THEN "done"
                                                          ELSE "idle"]]]
    /\ writer = [n \in Nodes |-> NoTask]
    /\ loop = LoopAt("select")
    /\ caller = [c \in Callers |-> IdleCaller]
    /\ worker = [c \in Callers |-> NoWorker]
    /\ pinger = NoPingAll
    /\ NoCalls

DownNext ==
    \/ \E c \in Callers : Search(c)
    \/ \E c \in Callers : MultiSearch(c)
    \/ LoopTickTasks
    \/ \E c \in Callers : LoopSearchBundle(c)
    \/ \E c \in Callers : LoopMultiSearchBundle(c)
    \/ getBest
    \/ LoopGo
    \/ \E c \in Callers : LoopSendErr(c)
    \/ \E w \in Callers : sendSearchBundle(w)
    \/ \E w \in Callers : sendMultiSearchBundle(w)
    \/ \E k \in DOMAIN probe, n \in Nodes : pingAndSetLock(k, n)
    \/ \E k \in DOMAIN probe, n \in Nodes : pingAndSetStore(k, n)

DownSpec == DownInit /\ [][DownNext]_vars

\* NewCluster on an empty list of endpoints: c.nodes is the empty Nodes, and
\* the loop goroutine is started all the same.
EmptyInit ==
    /\ health = << >>
    /\ probing = FALSE
    /\ ticks = 0
    /\ probe = [k \in Cycles |-> << >>]
    /\ writer = << >>
    /\ loop = LoopAt("start")
    /\ caller = [c \in Callers |-> IdleCaller]
    /\ worker = [c \in Callers |-> NoWorker]
    /\ pinger = NoPingAll
    /\ NoCalls

\* The steps of the loop goroutine on the empty Nodes, other than the tick:
\* getBest has no node to return, so there is no go statement and no worker.
EmptyLoopWork ==
    \/ LoopStart
    \/ \E c \in Callers : LoopSearchBundle(c)
    \/ \E c \in Callers : LoopMultiSearchBundle(c)
    \/ getBest
    \/ \E c \in Callers : LoopSendErr(c)
    \/ \E c \in Callers : LoopShutdown(c)
    \/ \E c \in Callers : LoopAck(c)

\* The steps of a pingAll goroutine on the empty Nodes: the range has no
\* iteration, so there is no pingAndSet task, no send and no receive.
EmptyPingAllWork ==
    \/ pingAllRangeEnd
    \/ pingAllReturn

EmptyNext ==
    \/ \E c \in Callers : Search(c)
    \/ \E c \in Callers : MultiSearch(c)
    \/ \E c \in Callers : Shutdown(c)
    \/ LoopStart
    \/ LoopTickPingAll
    \/ \E c \in Callers : LoopSearchBundle(c)
    \/ \E c \in Callers : LoopMultiSearchBundle(c)
    \/ getBest
    \/ \E c \in Callers : LoopSendErr(c)
    \/ \E c \in Callers : LoopShutdown(c)
    \/ \E c \in Callers : LoopAck(c)
    \/ pingAllRangeEnd
    \/ pingAllReturn

\* The loop goroutine and the pingAll goroutines are scheduled fairly; no
\* tick has to come.
EmptySpec ==
    EmptyInit /\ [][EmptyNext]_vars /\ WF_vars(EmptyLoopWork) /\ WF_vars(EmptyPingAllWork)

\* Path on its own: some SearchRequest, and the call of Path on it.
PathInit ==
    /\ NewCluster
    /\ request \in SearchRequests
    /\ path = NoPath
    /\ NoBodyCall
    /\ NoItemCall

PathNext == SearchRequestPath

PathSpec == PathInit /\ [][PathNext]_vars

\* One call of pingAll, on the first len nodes of the Cluster for every len
\* from none to all, with the nodes at the health NewNode gave them.  The
\* goroutines of the program are scheduled fairly; a Ping returns when it
\* returns, and none has to.
PingAllInit ==
    /\ health = [n \in Nodes |-> NewNode(n)]
    /\ probing = TRUE
    /\ ticks = 1
    /\ probe = [k \in Cycles |-> [n \in Nodes |-> IdleTask]]
    /\ writer = [n \in Nodes |-> NoTask]
    /\ loop = LoopAt("select")
    /\ caller = [c \in Callers |-> IdleCaller]
    /\ worker = [c \in Callers |-> NoWorker]
    /\ \E len \in 0..NumNodes : pinger = [NoPingAll EXCEPT !.pc = "range", !.len = len]
    /\ NoCalls

PingAllWork ==
    \/ pingAllGo
    \/ pingAllRangeEnd
    \/ \E n \in Nodes : pingAndSetStore(1, n)
    \/ \E n \in Nodes : pingAllSend(n)
    \/ pingAllReceive
    \/ pingAllReturn

PingAllNext ==
    \/ pingAllGo
    \/ pingAllRangeEnd
    \/ \E n \in Nodes : pingAndSetLock(1, n)
    \/ \E n \in Nodes : pingAndSetStore(1, n)
    \/ \E n \in Nodes : pingAllSend(n)
    \/ pingAllReceive
    \/ pingAllReturn

PingAllSpec == PingAllInit /\ [][PingAllNext]_vars /\ WF_vars(PingAllWork)

\* Request on its own: some BulkRequest or MultiSearchRequest, and the call
\* of Request on it.
BodyInit ==
    /\ NewCluster
    /\ NoPathCall
    /\ NoItemCall
    /\ batch \in Batches
    /\ built = NotBuilt

BodyNext == BulkRequestCall \/ MultiSearchRequestCall

BodySpec == BodyInit /\ [][BodyNext]_vars

\* UnmarshalJSON on its own: some text, and the call on it.
ItemInit ==
    /\ NewCluster
    /\ NoPathCall
    /\ NoBodyCall
    /\ data \in Texts
    /\ item = NoItem

ItemNext == UnmarshalJSONCall

ItemSpec == ItemInit /\ [][ItemNext]_vars

\* ------------------------------------------------------------ the claims
ImproveTable == (Green :> Green) @@ (Yellow :> Green) @@ (Red :> Yellow)
DegradeTable == (Green :> Yellow) @@ (Yellow :> Red) @@ (Red :> Red)

\* C7: Improve and Degrade are defined on each of Green, Yellow, Red, give a
\* health value, and follow the table Improve: Red->Yellow, Yellow->Green,
\* Green->Green; Degrade: Green->Yellow, Yellow->Red, Red->Red.  Checked on
\* every health value a node has and on every value a pingAndSet computes.
C7_HealthTable ==
    /\ \A n \in Nodes :
          /\ Improve(health[n]) \in Health /\ Degrade(health[n]) \in Health
          /\ Improve(health[n]) = ImproveTable[health[n]]
          /\ Degrade(health[n]) = DegradeTable[health[n]]
    /\ \A k \in Cycles, n \in Nodes :
          probe[k][n].pc = "set" =>
             probe[k][n].val \in {ImproveTable[health[n]], DegradeTable[health[n]]}

\* A pingAndSet has computed Degrade(Green) = Yellow and one has computed
\* Improve(Red) = Yellow.
C7_Witness ==
    \E k, j \in Cycles, n, m \in Nodes :
       /\ probe[k][n].pc = "set" /\ health[n] = Green /\ probe[k][n].val = Yellow
       /\ probe[j][m].pc = "set" /\ health[m] = Red /\ probe[j][m].val = Yellow

\* C8: from every health value h two Improves give Green and two Degrades
\* give Red, Improve(Degrade(Degrade(h))) is Yellow or better, and Green is a
\* fixed point of Improve, Red of Degrade.
C8_TwoStepConvergence ==
    /\ \A n \in Nodes :
          LET h == health[n] IN
          /\ Improve(Improve(h)) = Green
          /\ Degrade(Degrade(h)) = Red
          /\ Improve(Degrade(Degrade(h))) \in {Green, Yellow}
    /\ Improve(Green) = Green
    /\ Degrade(Red) = Red

\* A node is Green while another is Red: both ends of the scale are reached.
C8_Witness ==
    \E n, m \in Nodes :
       /\ health[n] = Green /\ probe[1][n].pc = "done"
       /\ health[m] = Red /\ probe[1][m].pc = "done"

\* C9: a pingAndSet changes its node's health once, in its locked assignment:
\* to Improve(health) when the reply was ok=true in time, to Degrade(health)
\* for every other reply, and it changes no other node; health changes in no
\* other step.  From Red one success gives Yellow, not Green, and a second
\* success gives Green.
C9_OneTransitionPerProbe ==
    [][\A n \in Nodes :
         /\ \A k \in Cycles :
               (probe[k][n].pc = "set" /\ probe'[k][n].pc = "done") =>
                  /\ health'[n] = IF probe[k][n].reply = "ok"
                                  THEN ImproveTable[health[n]]
                                  ELSE DegradeTable[health[n]]
                  /\ \A m \in Nodes \ {n} : health'[m] = health[m]
                  /\ (health[n] = Red /\ probe[k][n].reply = "ok") =>
                        (health'[n] = Yellow /\ ImproveTable[health'[n]] = Green)
         /\ health'[n] # health[n] =>
               \E k \in Cycles : probe[k][n].pc = "set" /\ probe'[k][n].pc = "done"
      ]_vars

\* A pingAndSet holds the lock of a Red node after a successful Ping, and
\* another that of a node after a reply with ok=false.
C9_Witness ==
    \E k, j \in Cycles, n, m \in Nodes :
       /\ probe[k][n].pc = "set" /\ probe[k][n].reply = "ok" /\ health[n] = Red
       /\ probe[j][m].pc = "set" /\ probe[j][m].reply = "not ok" /\ health[m] = Yellow

\* The health getBest has read for node n when it is about to read node
\* loop.i: what the lists green and yellow record for the nodes before
\* loop.i, the node's health now for loop.i itself.
InList(n, list) == \E j \in 1..Len(list) : list[j] = n

ReadHealth(n) ==
    IF n = loop.i THEN health[n]
    ELSE IF InList(n, loop.green) THEN Green
    ELSE IF InList(n, loop.yellow) THEN Yellow
    ELSE Red

\* The step in which getBest returns.
getBestReturns == loop.pc = "getBest" /\ loop'.pc \in {"go", "sendErr"}

\* C3: when no node's health differs from what getBest read for it, getBest
\* returns a Green node if a node is Green, else a Yellow node if a node is
\* Yellow, else no node and the error, which is what the caller then gets.
C3_SelectBest ==
    [][/\ (getBestReturns /\ \A n \in Nodes : ReadHealth(n) = health[n]) =>
            IF \E n \in Nodes : health[n] = Green
            THEN loop'.pc = "go" /\ loop'.node \in Nodes /\ health[loop'.node] = Green
            ELSE IF \E n \in Nodes : health[n] = Yellow
            THEN loop'.pc = "go" /\ loop'.node \in Nodes /\ health[loop'.node] = Yellow
            ELSE loop'.pc = "sendErr" /\ loop'.node = None
       /\ (loop.pc = "sendErr" /\ loop'.pc # "sendErr") =>
            /\ caller'[loop.b].pc = "returned"
            /\ caller'[loop.b].result.err.tag = "no healthy nodes available"
            /\ caller'[loop.b].result.response = ZeroResponse
      ]_vars

\* getBest has returned a Green node while another node is Yellow, and an
\* earlier call has got the error.
C3_Witness ==
    /\ loop.pc = "go" /\ health[loop.node] = Green
    /\ \E m \in Nodes : health[m] = Yellow
    /\ \E c \in Callers : caller[c].result.err.tag = "no healthy nodes available"

\* C4 as claimed: when the loop hands the request to a worker, no node is
\* strictly healthier than the chosen node.
C4_HealthiestAtHandOff ==
    [][(loop.pc = "go" /\ loop'.pc = "select") =>
          \A m \in Nodes : health[m] >= health[loop.node]]_vars

\* C4, amended: the chosen node is a healthiest node by the health values
\* getBest read: no node's health, as read, is strictly better than the
\* chosen node's health as read, and the latter is not Red.
C4_HealthiestAsRead ==
    [][getBestReturns =>
          IF loop'.pc = "go"
          THEN /\ loop'.node \in Nodes
               /\ ReadHealth(loop'.node) # Red
               /\ \A m \in Nodes : ReadHealth(m) >= ReadHealth(loop'.node)
          ELSE \A m \in Nodes : ReadHealth(m) = Red]_vars

\* The loop is about to hand a request to a Yellow node while another node
\* has become Green.
C4_Witness ==
    /\ loop.pc = "go" /\ health[loop.node] = Yellow
    /\ \E m \in Nodes : health[m] = Green

IsShutdown(c) == caller[c].kind = "shutdown"

\* C2: what a caller gets from Search / MultiSearch is the response or the
\* error of its own request on the node the loop chose for its bundle, or
\* the error of the selection made for its bundle.
C2_NoCrossTalk ==
    \A c \in Callers :
       (caller[c].pc = "returned" /\ ~IsShutdown(c)) =>
          LET r == caller[c].result IN
          \/ /\ worker[c].pc = "done" /\ worker[c].node \in Nodes
             /\ r = [response |-> Response(c, worker[c].node), err |-> Nil]
          \/ /\ worker[c].pc = "done" /\ worker[c].node \in Nodes
             /\ r = [response |-> ZeroResponse, err |-> ExecError(c, worker[c].node)]
          \/ /\ worker[c].pc = "none"
             /\ r = [response |-> ZeroResponse, err |-> NoHealthyNodes(c)]

\* A caller has its own response while another bundle's value is being sent.
C2_Witness ==
    \E c, d \in Callers :
       /\ c # d
       /\ caller[c].pc = "returned"
       /\ caller[c].result.response = Response(c, worker[c].node)
       /\ worker[d].pc = "send" /\ caller[d].pc = "waiting"

\* An error is handed over: by the loop (the selection failed) or by worker w
\* (the node execution failed).
SelectionErrorSent == loop.pc = "sendErr" /\ loop'.pc # "sendErr"

ExecErrorSent(w) ==
    worker[w].pc = "send" /\ worker[w].out.tag = "error" /\ worker'[w].pc = "done"

\* C10: the error of a failed selection and the error of a failed execution
\* go to the caller of that request and to nobody else; the step that
\* delivers it changes no other caller and no other worker, and leaves the
\* loop at its select (selection error) or where it was (execution error);
\* the loop stops in no step but the acknowledgement of a Shutdown, and at
\* its select it takes the bundle of any caller that is sending one.
C10_ErrorsStayLocal ==
    [][/\ SelectionErrorSent =>
            /\ loop'.pc = "select"
            /\ caller'[loop.b].pc = "returned"
            /\ caller'[loop.b].result.err = NoHealthyNodes(loop.b)
            /\ \A d \in Callers \ {loop.b} : caller'[d] = caller[d]
            /\ worker' = worker
       /\ \A w \in Callers :
            ExecErrorSent(w) =>
               /\ loop' = loop
               /\ caller'[w].pc = "returned"
               /\ caller'[w].result.err = ExecError(w, worker[w].node)
               /\ \A d \in Callers \ {w} :
                     caller'[d] = caller[d] /\ worker'[d] = worker[d]
       /\ (loop'.pc = "stopped" /\ loop.pc # "stopped") => loop.pc = "ack"
       /\ \A d \in Callers :
            (loop.pc = "select" /\ caller[d].pc = "sending" /\ ~IsShutdown(d)) =>
               ENABLED (LoopSearchBundle(d) \/ LoopMultiSearchBundle(d))
      ]_vars

\* A caller has the selection error, another has the error of its node, and
\* the loop is placing nothing: both errors were delivered, the loop is back
\* at its select.
C10_Witness ==
    \E c, d \in Callers :
       /\ caller[c].pc = "returned"
       /\ caller[c].result.err.tag = "no healthy nodes available"
       /\ caller[d].pc = "returned"
       /\ caller[d].result.err.tag = "error"
       /\ loop.pc = "select"

\* C5: while Shutdown waits for the acknowledgement the loop has taken its
\* signal and handles nothing else; once Shutdown has returned the loop is
\* stopped: it can handle no tick, take no bundle and no second shutdown
\* signal, run no getBest and start no worker.
C5_ShutdownSynchronous ==
    \A c \in Callers :
       /\ (IsShutdown(c) /\ caller[c].pc = "waitack") =>
             (loop.pc = "ack" /\ loop.b = c)
       /\ (IsShutdown(c) /\ caller[c].pc = "returned") =>
             /\ loop.pc = "stopped"
             /\ ~ENABLED LoopTick
             /\ \A d \in Callers :
                   ~ENABLED (LoopSearchBundle(d) \/ LoopMultiSearchBundle(d)
                               \/ LoopShutdown(d))
             /\ ~ENABLED getBest
             /\ ~ENABLED LoopGo

\* Shutdown has returned after a tick was handled, while another caller is
\* still sending its bundle.
C5_Witness ==
    \E c, d \in Callers :
       /\ IsShutdown(c) /\ caller[c].pc = "returned"
       /\ caller[d].pc = "sending" /\ ~IsShutdown(d)
       /\ probing

\* C1: where nobody calls Shutdown, every caller that is sending its bundle
\* or waiting for its result gets a result: a response with a nil error, or
\* the zero response with an error.
C1_EverySearchReturns ==
    \A c \in Callers :
       (caller[c].pc \in {"sending", "waiting"}) ~>
          /\ caller[c].pc = "returned"
          /\ \/ caller[c].result.response.tag = "response" /\ caller[c].result.err = Nil
             \/ caller[c].result.response = ZeroResponse /\ caller[c].result.err # Nil

\* Every caller has returned, one with a response and one with an error.
C1_Witness ==
    /\ \A c \in Callers : caller[c].pc = "returned" /\ ~IsShutdown(c)
    /\ \E c \in Callers : caller[c].result.response.tag = "response"
    /\ \E c \in Callers : caller[c].result.err # Nil

\* C6: a Shutdown call that is sending its signal to a running loop returns,
\* (unless another Shutdown stops the loop first), with no tick, no Ping and
\* no node execution having to happen: none of them is scheduled fairly.
C6_ShutdownReturns ==
    \A c \in Callers :
       (IsShutdown(c) /\ caller[c].pc = "sending") ~>
          (caller[c].pc = "returned" \/ loop.pc = "stopped")

\* Shutdown has returned where no tick was ever handled and a worker is
\* still in its node execution.
C6_Witness ==
    \E c, w \in Callers :
       /\ IsShutdown(c) /\ caller[c].pc = "returned"
       /\ ~probing
       /\ worker[w].pc = "exec"

\* C11: a node execution for a bundle starts only in the loop's go statement
\* for that bundle, on the node getBest returned for it; the worker keeps
\* that node and, once its one execution has returned, never executes
\* again: a failed execution goes to the caller as it is.  A bundle whose
\* selection failed never gets a worker.
C11_NoRetry ==
    [][\A w \in Callers :
         /\ (worker'[w].pc = "exec" /\ worker[w].pc # "exec") =>
               /\ worker[w].pc = "none"
               /\ loop.pc = "go" /\ loop.b = w
               /\ worker'[w].node = loop.node
         /\ worker[w].pc # "none" =>
               (worker'[w].node = worker[w].node /\ worker'[w].pc # "none")
         /\ worker[w].pc \in {"send", "done"} => worker'[w].pc \in {"send", "done"}
         /\ worker[w].pc = "send" => worker'[w].out = worker[w].out
         /\ ExecErrorSent(w) => caller'[w].result.err = ExecError(w, worker[w].node)
         /\ (caller[w].pc = "returned" /\ worker[w].pc = "none") => worker'[w].pc = "none"
         /\ (SelectionErrorSent /\ loop.b = w) => worker'[w].pc = "none"
      ]_vars

\* A caller has the error of its one execution while another node is Green.
C11_Witness ==
    \E w \in Callers, m \in Nodes :
       /\ worker[w].pc = "done"
       /\ caller[w].pc = "returned"
       /\ caller[w].result.err = ExecError(w, worker[w].node)
       /\ m # worker[w].node
       /\ health[m] = Green

IsRequest(c) == caller[c].kind \in {"search", "msearch"}

\* C12 as claimed: the bundle the loop takes is the one of the caller that
\* arrived first among the callers that are sending a bundle.
C12_SubmissionOrder ==
    [][\A c \in Callers :
         (IsRequest(c) /\ caller[c].pc = "sending" /\ caller'[c].pc = "waiting") =>
            \A d \in Callers :
               (IsRequest(d) /\ caller[d].pc = "sending") =>
                  caller[c].ticket <= caller[d].ticket
      ]_vars

\* C12, amended: when a Search bundle and a MultiSearch bundle are pending
\* together the select can take either of them next, whichever caller arrived
\* first.
C12_EitherChannelFirst ==
    \A c, d \in Callers :
       (/\ loop.pc = "select"
        /\ caller[c].pc = "sending" /\ caller[c].kind = "search"
        /\ caller[d].pc = "sending" /\ caller[d].kind = "msearch") =>
          /\ ENABLED LoopSearchBundle(c)
          /\ ENABLED LoopMultiSearchBundle(d)

\* A MultiSearch bundle is pending, a Search bundle arrived after it, and the
\* loop is at its select.
C12_Witness ==
    \E c, d \in Callers :
       /\ loop.pc = "select"
       /\ caller[c].pc = "sending" /\ caller[c].kind = "search"
       /\ caller[d].pc = "sending" /\ caller[d].kind = "msearch"
       /\ caller[d].ticket < caller[c].ticket

\* C13 as claimed: when a caller is in a call on the Cluster, which NewCluster
\* has returned to it, the loop has been entered: its ticker exists and it is
\* at its select or beyond.
C13_RunningAtReturn ==
    \A c \in Callers : caller[c].pc # "idle" => loop.pc # "start"

\* C13, amended: NewCluster returns with the loop goroutine started and
\* possibly not yet running.  Until the loop has made its ticker and reached
\* its select, a caller's send stays blocked, no result is returned, no
\* probe cycle is launched, no worker exists and every node has the health
\* NewNode gave it; the loop's first step can always be taken.
C13_NothingBeforeLoopStart ==
    loop.pc = "start" =>
       /\ \A c \in Callers :
             caller[c].pc \in {"idle", "sending"} /\ caller[c].result = NoResult
       /\ ~probing
       /\ \A n \in Nodes : health[n] = NewNode(n)
       /\ \A w \in Callers : worker[w] = NoWorker
       /\ ENABLED LoopStart

\* Two callers are blocked in their sends, one of them in Search, and the
\* loop has not run yet.
C13_Witness ==
    /\ loop.pc = "start"
    /\ \E c, d \in Callers :
          /\ c # d
          /\ caller[c].pc = "sending" /\ caller[c].kind = "search"
          /\ caller[d].pc = "sending"

\* C14: the Cluster has one node per endpoint given to NewCluster, in that
\* order, in every state: health is kept for exactly the nodes 1..NumNodes,
\* whatever their health, getBest ranges over exactly these nodes and a
\* worker's node is one of them.
C14_NodeSetFixed ==
    /\ DOMAIN health = Nodes
    /\ Len(health) = NumNodes
    /\ \A n \in Nodes : health[n] \in Health
    /\ loop.pc = "getBest" => loop.i \in Nodes
    /\ loop.pc = "go" => loop.node \in Nodes
    /\ \A w \in Callers : worker[w].pc # "none" => worker[w].node \in Nodes

\* The loop has stopped after a Shutdown, a caller has the selection error,
\* and every node is Red.
C14_Witness ==
    /\ loop.pc = "stopped"
    /\ \A n \in Nodes : health[n] = Red
    /\ \E c \in Callers :
          caller[c].pc = "returned" /\ caller[c].result.err = NoHealthyNodes(c)

\* The names of a list from the first to the k-th, with commas between them.
RECURSIVE Commas(_, _)
Commas(a, k) == IF k = 1 THEN a[1] ELSE Commas(a, k - 1) \o "," \o a[k]

\* C15: the path Path returns is "/_search" for no indices and no types,
\* "/<indices>/_search" for indices only, "/_all/<types>/_search" for types
\* only and "/<indices>/<types>/_search" for both, the names of a list in
\* their order with commas between them; it is never the panic.
C15_PathCases ==
    path # NoPath =>
       LET I == request.Indices
           T == request.Types
       IN /\ path # "panic: unreachable"
          /\ (I = <<>> /\ T = <<>>) => path = "/_search"
          /\ (I # <<>> /\ T = <<>>) => path = "/" \o Commas(I, Len(I)) \o "/_search"
          /\ (I = <<>> /\ T # <<>>) => path = "/_all/" \o Commas(T, Len(T)) \o "/_search"
          /\ (I # <<>> /\ T # <<>>) =>
                path = "/" \o Commas(I, Len(I)) \o "/" \o Commas(T, Len(T)) \o "/_search"
          /\ (I = <<"i2", "i1">> /\ T = <<>>) => path = "/i2,i1/_search"
          /\ (I = <<>> /\ T = <<"t1", "t2", "t3">>) => path = "/_all/t1,t2,t3/_search"

\* Path has returned for two indices and three types, and "/i1,i2/t1,t2,t3/_search"
\* is what it returned.
C15_Witness ==
    /\ request = [Indices |-> <<"i1", "i2">>, Types |-> <<"t1", "t2", "t3">>]
    /\ path = "/i1,i2/t1,t2,t3/_search"

\* C16: a bundle gets one value over its two channels.  Once its caller has
\* returned, either its worker has ended after one send, of the response on
\* b.response or of the error on b.err, or the loop sent the selection error
\* and there is no worker; a worker that has ended has had its value taken;
\* while a worker runs or is about to send, nothing was sent on the bundle
\* and the caller is waiting; and before the loop has taken and placed the
\* bundle there is no worker.
C16_OneValuePerBundle ==
    \A c \in Callers :
       /\ (IsRequest(c) /\ caller[c].pc = "returned") =>
             LET r == caller[c].result IN
             \/ /\ worker[c].pc = "done" /\ worker[c].out.tag = "response"
                /\ r = [response |-> worker[c].out, err |-> Nil]
             \/ /\ worker[c].pc = "done" /\ worker[c].out.tag = "error"
                /\ r = [response |-> ZeroResponse, err |-> worker[c].out]
             \/ /\ worker[c].pc = "none"
                /\ r = [response |-> ZeroResponse, err |-> NoHealthyNodes(c)]
       /\ worker[c].pc = "done" => caller[c].pc = "returned"
       /\ worker[c].pc \in {"exec", "send"} =>
             (caller[c].pc = "waiting" /\ caller[c].result = NoResult)
       /\ worker[c].pc = "send" => worker[c].out.tag \in {"response", "error"}
       /\ caller[c].pc \in {"idle", "sending", "waitack"} => worker[c].pc = "none"
       /\ (caller[c].pc = "waiting" /\ worker[c].pc = "none") =>
             (loop.b = c /\ loop.pc \in {"getBest", "go", "sendErr"})

\* One caller has the response its worker sent, another has the selection
\* error from the loop and no worker.
C16_Witness ==
    \E c, d \in Callers :
       /\ caller[c].pc = "returned" /\ worker[c].pc = "done"
       /\ caller[c].result.response.tag = "response"
       /\ caller[d].pc = "returned" /\ worker[d].pc = "none"
       /\ caller[d].result.err = NoHealthyNodes(d)

AtSelect == loop.pc \in {"select", "stopped"}

\* C17: with no Ping and no node execution ever having to return, the loop
\* comes back to its select from wherever it is (or has stopped after a
\* Shutdown); a caller that is sending a bundle has it taken and placed, with
\* a worker on a node or with the selection error, and a caller that is
\* sending a shutdown signal returns, unless a Shutdown stops the loop first;
\* and at its select the loop can take a tick.
C17_LoopNeverWaitsForNetwork ==
    /\ ~AtSelect ~> AtSelect
    /\ \A c \in Callers :
          (caller[c].pc = "sending" /\ IsRequest(c)) ~>
             \/ worker[c].pc # "none"
             \/ caller[c].pc = "returned"
             \/ loop.pc = "stopped"
    /\ \A c \in Callers :
          (caller[c].pc = "sending" /\ IsShutdown(c)) ~>
             (caller[c].pc = "returned" \/ loop.pc = "stopped")
    /\ [](loop.pc = "select" /\ ticks < MaxTicks => ENABLED LoopTickTasks)

\* The loop is handing a request to a node while another bundle's worker is
\* in its node execution and a pingAndSet task is in its Ping.
C17_Witness ==
    \E w \in Callers, k \in Cycles, n \in Nodes :
       /\ worker[w].pc = "exec"
       /\ probe[k][n].pc = "ping"
       /\ loop.pc = "go" /\ loop.b # w

\* The callers whose event the loop has taken and not finished handling: a
\* bundle that has neither a worker nor the selection error yet, a shutdown
\* signal that is not acknowledged yet.
InHandling ==
    {c \in Callers : \/ caller[c].pc = "waiting" /\ worker[c].pc = "none"
                     \/ caller[c].pc = "waitack"}

Handling == loop.pc \in {"getBest", "go", "sendErr", "ack"}

\* C18: at most one event is in handling, the one the loop is at: one getBest
\* at most is in progress; and while an event is in handling the loop can
\* take no tick, no bundle and no shutdown signal.
C18_OneEventAtATime ==
    /\ Cardinality(InHandling) <= 1
    /\ \A c \in InHandling : Handling /\ loop.b = c
    /\ Handling =>
          /\ InHandling = {loop.b}
          /\ ~ENABLED LoopTick
          /\ \A d \in Callers :
                ~ENABLED (LoopSearchBundle(d) \/ LoopMultiSearchBundle(d)
                            \/ LoopShutdown(d))

\* getBest has read the first node for one bundle while another caller is
\* sending its bundle and the ticks have begun.
C18_Witness ==
    /\ loop.pc = "getBest" /\ loop.i > 1
    /\ probing
    /\ \E d \in Callers : d # loop.b /\ caller[d].pc = "sending" /\ IsRequest(d)

\* C19 as claimed: the node the loop hands to a worker is not Red at the
\* hand-off.
C19_NotRedAtHandOff ==
    [][(loop.pc = "go" /\ loop'.pc = "select") => health[loop.node] # Red]_vars

\* C19, amended: the node getBest returns was Green or Yellow when getBest
\* read its health, and a node it read as Red is never returned.
C19_NotRedAsRead ==
    [][(getBestReturns /\ loop'.pc = "go") =>
          /\ loop'.node \in Nodes
          /\ ReadHealth(loop'.node) \in {Green, Yellow}
          /\ \A m \in Nodes : ReadHealth(m) = Red => loop'.node # m
      ]_vars

\* The loop is about to hand a request to a node that has become Red since
\* getBest read it, while another node is not Red.
C19_Witness ==
    /\ loop.pc = "go" /\ health[loop.node] = Red
    /\ \E m \in Nodes : health[m] # Red

\* The tasks that are between n.Lock() and n.Unlock().
Holders(n) == {k \in DOMAIN probe : probe[k][n].pc = "set"}

\* C20: at most one pingAndSet task is between Lock and Unlock of a node, and
\* it is the one recorded as the lock's holder; getBest reads a node's health
\* only while no task holds the node's lock; and the assignment of a task
\* sets the node's health to the Improve (reply ok=true) or the Degrade (any
\* other reply) of the health the node has at that moment, so the health
\* after k tasks is their k transitions applied one after another, in the
\* order of their assignments.
C20_AtomicHealthUpdate ==
    /\ [](\A n \in Nodes :
            /\ Cardinality(Holders(n)) <= 1
            /\ \A k \in Holders(n) : writer[n] = k
            /\ writer[n] # NoTask => writer[n] \in Holders(n)
            /\ (loop.pc = "getBest" /\ loop.i = n /\ writer[n] # NoTask) =>
                  ~ENABLED getBest)
    /\ [][\A n \in Nodes :
            /\ \A k \in DOMAIN probe :
                  (probe[k][n].pc = "set" /\ probe'[k][n].pc = "done") =>
                     health'[n] = IF Ping(probe[k][n].reply)
                                  THEN ImproveTable[health[n]]
                                  ELSE DegradeTable[health[n]]
            /\ (loop.pc = "getBest" /\ loop' # loop /\ loop.i = n) =>
                  writer[n] = NoTask
         ]_vars

\* A second task holds the lock of a node on which a first task has ended,
\* with a different health to write, while getBest is about to read that node.
C20_Witness ==
    \E n \in Nodes, k, j \in DOMAIN probe :
       /\ probe[k][n].pc = "set" /\ probe[j][n].pc = "done"
       /\ probe[k][n].val # health[n]
       /\ loop.pc = "getBest" /\ loop.i = n

\* C21: a pingAndSet task whose Ping has not returned holds no lock; the
\* holder of a node's lock is a task past its Ping that has only the
\* assignment and the Unlock left, and that step can always be taken; so
\* getBest, about to read a node whose lock nobody holds, can read it,
\* however many tasks of that node are still in their Ping, returned or not.
C21_NoLockAcrossPing ==
    \A n \in Nodes :
       /\ \A k \in DOMAIN probe : probe[k][n].pc = "ping" => writer[n] # k
       /\ writer[n] # NoTask =>
             /\ probe[writer[n]][n].pc = "set"
             /\ ENABLED pingAndSetStore(writer[n], n)
       /\ (loop.pc = "getBest" /\ loop.i = n
             /\ \A k \in DOMAIN probe : probe[k][n].pc # "set") => ENABLED getBest

\* getBest has read every node and returned while a task of a node is still
\* in its Ping and another task of that node has assigned and unlocked.
C21_Witness ==
    \E n \in Nodes, k, j \in DOMAIN probe :
       /\ loop.pc \in {"go", "sendErr"}
       /\ probe[k][n].pc = "ping"
       /\ probe[j][n].pc = "done"

\* C22: a node's health changes only in the locked assignment of a pingAndSet
\* task of that node, which touches no caller, no worker and not the loop.
\* Every step of a caller (Search, MultiSearch, Shutdown and their returns),
\* of the loop (getBest with its GetHealth included) and of a worker leaves
\* every node's health as it is, and so does the return of a Ping on its
\* own; a node execution that fails leaves the node that served it with the
\* health it had.
C22_HealthOnlyByPingAndSet ==
    [][/\ \A n \in Nodes :
            health'[n] # health[n] =>
               /\ \E k \in Cycles :
                     /\ probe[k][n].pc = "set" /\ probe'[k][n].pc = "done"
                     /\ health'[n] = probe[k][n].val
               /\ caller' = caller /\ worker' = worker /\ loop' = loop
       /\ (caller' # caller \/ worker' # worker \/ loop' # loop) => health' = health
       /\ \A k \in Cycles, n \in Nodes :
            (probe[k][n].pc = "ping" /\ probe'[k][n].pc = "set") => health' = health
       /\ \A w \in Callers :
            (worker[w].pc = "exec" /\ worker'[w].out.tag = "error") =>
               health'[worker[w].node] = health[worker[w].node]
      ]_vars

\* A node execution has failed and its error has reached the caller, on a
\* node that no pingAndSet has assigned to, and the node still has the health
\* NewNode gave it.
C22_Witness ==
    \E w \in Callers :
       /\ caller[w].pc = "returned"
       /\ caller[w].result.err = ExecError(w, worker[w].node)
       /\ \A k \in Cycles : probe[k][worker[w].node].pc \in {"idle", "ping"}
       /\ health[worker[w].node] = NewNode(worker[w].node)

\* C23: pingAll starts a pingAndSet for each node of its set, in the range
\* order, never one for a node outside the set and never a second one for a
\* node; a go statement does not wait for the tasks started before it, so
\* the tasks run together; pingAll returns only when every one of its tasks
\* has completed its pingAndSet and sent on c, having received as many values
\* as the set has nodes; on the empty set it can return at once; and it
\* returns whenever all its tasks' pingAndSets have returned.
C23_PingAllWaitsForAll ==
    /\ [](/\ \A n \in Nodes : probe[1][n].pc # "idle" <=> n < pinger.j
          /\ pinger.j <= pinger.len + 1
          /\ pinger.pc \in {"wait", "returned"} => pinger.j = pinger.len + 1
          /\ pinger.i + pinger.c = Cardinality({n \in Nodes : probe[1][n].pc = "sent"})
          /\ pinger.pc = "returned" =>
                /\ pinger.i = pinger.len
                /\ \A n \in Nodes : n <= pinger.len => probe[1][n].pc = "sent"
          /\ (pinger.pc = "range" /\ pinger.j <= pinger.len) => ENABLED pingAllGo
          /\ (pinger.pc = "wait" /\ pinger.len = 0) => ENABLED pingAllReturn
          /\ \A n \in Nodes : probe[1][n].pc = "done" => ENABLED pingAllSend(n))
    /\ [][\A n \in Nodes :
            /\ probe[1][n].pc # "idle" => probe'[1][n].pc # "idle"
            /\ (probe'[1][n].pc = "ping" /\ probe[1][n].pc # "ping") =>
                  /\ probe[1][n].pc = "idle"
                  /\ pinger.pc = "range" /\ pinger.j = n /\ n <= pinger.len
         ]_vars
    /\ (\A n \in Nodes : n <= pinger.len => probe[1][n].pc \in {"done", "sent"})
          ~> pinger.pc = "returned"

\* pingAll has returned on the full set, after one node's pingAndSet took
\* its node to Green and another's took its node to Red.
C23_Witness ==
    /\ pinger.pc = "returned"
    /\ pinger.len = NumNodes
    /\ \E n, m \in Nodes : health[n] = Green /\ health[m] = Red

\* C24: NewCluster launches no pingAll, and neither does the start of the
\* loop: the first pingAll is launched by the step in which the loop, at its
\* select, handles a tick, and that step does nothing else.  Until then no
\* pingAndSet can run and every node has the health NewNode gave it,
\* whatever requests have been served meanwhile.
C24_NoProbeBeforeFirstTick ==
    /\ [](/\ ~probing =>
                \A n \in Nodes : health[n] = NewNode(n) /\ ~ENABLED pingAndSet(n)
          /\ loop.pc = "start" => ~probing)
    /\ [][(probing' /\ ~probing) =>
             /\ loop.pc = "select" /\ loop' = loop
             /\ health' = health /\ caller' = caller /\ worker' = worker
         ]_vars

\* No tick has been handled yet, a caller has the response of a node and
\* another the error of one, and both nodes are as NewNode made them.
C24_Witness ==
    /\ ~probing
    /\ \E c, d \in Callers :
          /\ caller[c].pc = "returned" /\ caller[c].result.response.tag = "response"
          /\ caller[d].pc = "returned" /\ caller[d].result.err.tag = "error"
    /\ \A n \in Nodes : health[n] = Yellow

\* C25: a bundle that has a worker gets its result to its caller, provided
\* the node execution returns: whatever the loop does meanwhile (ticks, other
\* bundles, selection errors sent to others, a Shutdown acknowledged, the loop
\* stopped) the worker keeps its node, goes from its execution to its send
\* and from there to its end, its step is always possible, its caller stays
\* in its select until the worker's send, and the caller then returns with
\* the worker's value.
C25_WorkerRunsToCompletion ==
    /\ \A w \in Callers :
          worker[w].pc \in {"exec", "send"} ~>
             /\ worker[w].pc = "done"
             /\ caller[w].pc = "returned"
             /\ caller[w].result \in {[response |-> worker[w].out, err |-> Nil],
                                      [response |-> ZeroResponse, err |-> worker[w].out]}
    /\ [](\A w \in Callers :
            worker[w].pc \in {"exec", "send"} =>
               /\ caller[w].pc = "waiting"
               /\ ENABLED (sendSearchBundle(w) \/ sendMultiSearchBundle(w)))
    /\ [][\A w \in Callers :
            /\ worker[w].pc = "exec" =>
                  worker'[w].pc \in {"exec", "send"} /\ worker'[w].node = worker[w].node
            /\ worker[w].pc = "send" =>
                  worker'[w].pc \in {"send", "done"} /\ worker'[w].out = worker[w].out
            /\ (worker[w].pc \in {"exec", "send"} /\ caller'[w] # caller[w]) =>
                  (worker[w].pc = "send" /\ worker'[w].pc = "done")
         ]_vars

\* The loop has stopped after a Shutdown, and a worker whose node execution
\* has returned is about to send its value to its waiting caller.
C25_Witness ==
    \E c, w \in Callers :
       /\ IsShutdown(c) /\ caller[c].pc = "returned"
       /\ loop.pc = "stopped"
       /\ worker[w].pc = "send" /\ caller[w].pc = "waiting"

\* C26: the assignment of a pingAndSet whose Ping failed (a reply with
\* ok=false, a malformed reply, a timeout, a transport error) sets its node's
\* health to the Degrade of it and changes nothing else: no other node, no
\* caller, no worker, not the loop.  The error a caller has got from Search /
\* MultiSearch is nil, the selection error of its own request or the error
\* of its own request's execution on the node chosen for it.
C26_ProbeFailuresStayInternal ==
    /\ [](\A c \in Callers :
            (IsRequest(c) /\ caller[c].pc = "returned") =>
               caller[c].result.err \in
                  {Nil, NoHealthyNodes(c), ExecError(c, worker[c].node)})
    /\ [][\A k \in Cycles, n \in Nodes :
            (probe[k][n].pc = "set" /\ probe'[k][n].pc = "done"
               /\ ~Ping(probe[k][n].reply)) =>
                  /\ health'[n] = DegradeTable[health[n]]
                  /\ \A m \in Nodes \ {n} : health'[m] = health[m]
                  /\ caller' = caller /\ worker' = worker /\ loop' = loop
         ]_vars

\* A caller has the response of a node, with a nil error, and that node is
\* Red after a Ping of it that failed.
C26_Witness ==
    \E c \in Callers, n \in Nodes, k \in Cycles :
       /\ caller[c].pc = "returned"
       /\ caller[c].result = [response |-> Response(c, n), err |-> Nil]
       /\ probe[k][n].pc = "done"
       /\ health[n] = Red

\* The best tier by the health values getBest has read, when it is at the last
\* node of its range: the nodes read as Green if there is one, else the nodes
\* read as Yellow.
BestTier ==
    IF \E n \in Nodes : ReadHealth(n) = Green
    THEN {n \in Nodes : ReadHealth(n) = Green}
    ELSE {n \in Nodes : ReadHealth(n) = Yellow}

\* C27: when getBest reads the last node of its range (no task holding that
\* node's lock) and returns, the nodes it can return are exactly the nodes of the best tier: every node of the
\* tier is a possible result, no other node is, and the error is a possible
\* result exactly when the tier is empty.
C27_WholeTierSelectable ==
    (loop.pc = "getBest" /\ loop.i = Len(health) /\ writer[loop.i] = NoTask) =>
       /\ \A m \in Nodes :
             m \in BestTier <=>
                ENABLED (getBest /\ loop'.pc = "go" /\ loop'.node = m)
       /\ BestTier = {} <=> ENABLED (getBest /\ loop'.pc = "sendErr")

\* getBest has returned the last node of the Cluster while every node is
\* Green.
C27_Witness ==
    /\ loop.pc = "go"
    /\ loop.node = NumNodes
    /\ \A n \in Nodes : health[n] = Green

\* The names of a list from the first to the k-th, each in quotes, with
\* commas between them.
RECURSIVE Listed(_, _)
Listed(a, k) ==
    IF k = 1 THEN "\"" \o a[1] \o "\""
    ELSE Listed(a, k - 1) \o ",\"" \o a[k] \o "\""

\* The lines the claim expects for one sub-request: its header, and after it
\* its payload unless the sub-request is a bulk Delete.
HeaderLine(r) ==
    IF batch.kind = "bulk"
    THEN "{\"" \o r.op \o "\":{\"_index\":\"twitter\",\"_type\":\"tweet\",\"_id\":\""
            \o r.Params.Id \o "\"}}"
    ELSE LET I == r.Params.Indices
             T == r.Params.Types
         IN IF I = <<>> /\ T = <<>> THEN "{}"
            ELSE IF T = <<>> THEN "{\"index\":[" \o Listed(I, Len(I)) \o "]}"
            ELSE IF I = <<>> THEN "{\"type\":[" \o Listed(T, Len(T)) \o "]}"
            ELSE "{\"index\":[" \o Listed(I, Len(I)) \o "],\"type\":["
                    \o Listed(T, Len(T)) \o "]}"

Payload(r) == IF batch.kind = "bulk" THEN r.Source ELSE r.Query

PayloadLines(r) ==
    IF batch.kind = "bulk" /\ r.op = "delete" THEN <<>>
    ELSE <<"{\"" \o Payload(r).key \o "\":\"" \o Payload(r).val \o "\"}">>

\* The lines of the first k sub-requests, and a text of lines.
RECURSIVE BodyLines(_, _)
BodyLines(reqs, k) ==
    IF k = 0 THEN <<>>
    ELSE BodyLines(reqs, k - 1) \o <<HeaderLine(reqs[k])>> \o PayloadLines(reqs[k])

RECURSIVE TextOf(_)
TextOf(lines) == IF lines = <<>> THEN "" ELSE lines[1] \o "\n" \o TextOf(Tail(lines))

\* C28: when no sub-request has a payload that cannot be encoded, Request
\* returns a nil error and a request whose body is, line by line and in the
\* order of the sub-requests, each sub-request's header followed by its
\* payload, with no payload line for a bulk Delete; method and path are PUT
\* /_bulk or GET /_msearch.  When some payload cannot be encoded, Request
\* returns the encoder's error and a nil request.
C28_BodyInRequestOrder ==
    built # NotBuilt =>
       LET reqs == batch.Requests
           failing == {i \in 1..Len(reqs) : Payload(reqs[i]).type = "chan"}
       IN /\ failing # {} =>
                /\ built.err = UnsupportedType
                /\ built.request = [Method |-> "nil", Path |-> "", Body |-> ""]
          /\ failing = {} =>
                /\ built.err = NilError
                /\ built.request.Body = TextOf(BodyLines(reqs, Len(reqs)))
                /\ <<built.request.Method, built.request.Path>> =
                      IF batch.kind = "bulk" THEN <<"PUT", "/_bulk">>
                      ELSE <<"GET", "/_msearch">>
          /\ (batch.kind = "msearch" /\ Len(reqs) = 2
                /\ reqs[1] = [Params |-> [Indices |-> <<>>, Types |-> <<>>],
                              Query |-> GoMap("query", "1")]
                /\ reqs[2] = [Params |-> [Indices |-> <<"i1", "i2">>, Types |-> <<"t1">>],
                              Query |-> GoMap("query", "2")]) =>
                built.request.Body =
                   "{}\n{\"query\":\"1\"}\n{\"index\":[\"i1\",\"i2\"],\"type\":[\"t1\"]}\n{\"query\":\"2\"}\n"

\* Request has returned for a bulk Create followed by a bulk Delete: three
\* lines, the Delete's header last.
C28_Witness ==
    /\ batch.kind = "bulk"
    /\ Len(batch.Requests) = 2
    /\ batch.Requests[1].op = "create"
    /\ batch.Requests[2].op = "delete"
    /\ built.err = NilError
    /\ built.request.Body =
          "{\"create\":{\"_index\":\"twitter\",\"_type\":\"tweet\",\"_id\":\"2\"}}\n"
          \o "{\"user\":\"kimchy2\"}\n"
          \o "{\"delete\":{\"_index\":\"twitter\",\"_type\":\"tweet\",\"_id\":\"1\"}}\n"

\* The operation keys the wrapper object has, and the first of them in the
\* order create, index, delete.
OperationKeys == {k \in {"create", "index", "delete"} : data[k] # Absent}

FirstOperation ==
    IF "create" \in OperationKeys THEN data.create
    ELSE IF "index" \in OperationKeys THEN data.index
    ELSE data.delete

C30_ResponseOrError ==
    \A c \in Callers :
       (IsRequest(c) /\ caller[c].pc = "returned") =>
          LET r == caller[c].result IN
          /\ \/ r.response.tag = "response" /\ r.err = Nil
             \/ r.response = ZeroResponse /\ r.err # Nil
          /\ ~(r.response # ZeroResponse /\ r.err # Nil)
          /\ r.err = Nil =>
                /\ worker[c].pc = "done"
                /\ r.response = worker[c].out
                /\ r.response = Response(c, worker[c].node)
          /\ r.err # Nil =>
                IF worker[c].pc = "none" THEN r.err = NoHealthyNodes(c)
                ELSE /\ worker[c].pc = "done"
                     /\ r.err = worker[c].out
                     /\ r.err = ExecError(c, worker[c].node)

\* One caller has the response of a node with a nil error, and another has
\* the zero response with the error of the same node.
C30_Witness ==
    \E c, d \in Callers :
       /\ caller[c].pc = "returned" /\ caller[d].pc = "returned"
       /\ caller[c].result.response.tag = "response" /\ caller[c].result.err = Nil
       /\ caller[d].result.response = ZeroResponse /\ caller[d].result.err.tag = "error"
       /\ worker[c].node = worker[d].node

\* No pingAndSet has come to its end.
NoProbeCompleted == \A k \in Cycles, n \in Nodes : probe[k][n].pc # "done"

\* C31 as claimed: the request that was admitted before any probe had
\* completed is handed to a node and does not get the selection error.
C31_AdmittedFreshIsServed ==
    /\ loop.pc # "sendErr"
    /\ caller[1].result.err.tag # "no healthy nodes available"

\* C31, amended: while no probe has completed every node has the health
\* NewNode gave it, Yellow, and a getBest that returns while no probe has
\* completed returns a node, not the error.
C31_SelectedFreshIsServed ==
    /\ [](NoProbeCompleted => \A n \in Nodes : health[n] = NewNode(n) /\ health[n] = Yellow)
    /\ [][(getBestReturns /\ NoProbeCompleted) =>
             /\ loop'.pc = "go"
             /\ loop'.node \in Nodes
         ]_vars

\* The request has a worker on a node, while the probes of a tick are in
\* their Ping and none has completed.
C31_Witness ==
    /\ NoProbeCompleted
    /\ worker[1].pc = "exec"
    /\ worker[1].node \in Nodes
    /\ \E k \in Cycles : \A n \in Nodes : probe[k][n].pc = "ping"

\* The loop has taken a shutdown signal: it is about to acknowledge it, or it
\* has returned.
LoopExiting == loop.pc \in {"ack", "stopped"}

\* C32: from the moment the loop has taken a shutdown signal, a call that is
\* blocked in its send on an intake channel (of Search, of MultiSearch or of
\* a second Shutdown) stays there in every step, with no response and no
\* error, whether it arrived before the signal was taken or after Shutdown
\* returned; the loop, once returned, takes no step; and such calls can still
\* arrive.
C32_BlockedAfterLoopExit ==
    /\ [](\A c \in Callers :
            /\ (LoopExiting /\ caller[c].pc = "sending") =>
                  /\ caller[c].result = NoResult
                  /\ worker[c].pc = "none"
            /\ (loop.pc = "stopped" /\ caller[c].pc = "idle") =>
                  ENABLED (Search(c) \/ MultiSearch(c)) /\ ENABLED Shutdown(c))
    /\ [][/\ \A c \in Callers :
               (LoopExiting /\ caller[c].pc = "sending") =>
                  /\ caller'[c].pc = "sending"
                  /\ caller'[c].result = caller[c].result
                  /\ worker'[c] = worker[c]
          /\ loop.pc = "stopped" => loop' = loop
         ]_vars

\* Shutdown has returned, the loop has returned, and a second Shutdown is
\* blocked in its send.
C32_Witness ==
    \E c, d \in Callers :
       /\ c # d
       /\ IsShutdown(c) /\ caller[c].pc = "returned"
       /\ loop.pc = "stopped"
       /\ IsShutdown(d) /\ caller[d].pc = "sending"

\* C33: the acknowledgement of a Shutdown can be sent whatever the pingAndSet
\* tasks are doing, and it leaves every task, every lock and every node's
\* health as they are; after the loop has returned a task in its Ping can
\* still have its Ping return and take the lock, a task that holds the lock
\* can still assign, and its assignment sets the node's health to the
\* Improve or the Degrade of it as before.
C33_ProbesOutliveShutdown ==
    /\ [](/\ loop.pc = "ack" => ENABLED LoopAck(loop.b)
          /\ LoopExiting =>
                \A k \in Cycles, n \in Nodes :
                   /\ (probe[k][n].pc = "ping" /\ writer[n] = NoTask) =>
                         ENABLED pingAndSetLock(k, n)
                   /\ probe[k][n].pc = "set" => ENABLED pingAndSetStore(k, n))
    /\ [][/\ (loop.pc = "ack" /\ loop'.pc = "stopped") =>
                (probe' = probe /\ writer' = writer /\ health' = health)
          /\ \A k \in Cycles, n \in Nodes :
                (loop.pc = "stopped" /\ probe[k][n].pc = "set"
                   /\ probe'[k][n].pc = "done") =>
                      health'[n] = IF Ping(probe[k][n].reply)
                                   THEN ImproveTable[health[n]]
                                   ELSE DegradeTable[health[n]]
         ]_vars

\* Shutdown has returned, a task is still in its Ping, and another holds its
\* node's lock with a health to assign that the node does not have yet.
C33_Witness ==
    \E c \in Callers, k, j \in Cycles, n, m \in Nodes :
       /\ IsShutdown(c) /\ caller[c].pc = "returned"
       /\ loop.pc = "stopped"
       /\ probe[k][n].pc = "ping"
       /\ probe[j][m].pc = "set" /\ probe[j][m].val # health[m]

\* The tasks of node n that are in flight, and those that have ended.
InFlight(n) == {k \in DOMAIN probe : probe[k][n].pc \in {"ping", "set"}}
Ended(n) == {k \in DOMAIN probe : probe[k][n].pc = "done"}


\* C34: with the tasks of several ticks in flight on one node, the loop at
\* its select can handle a further tick; each task assigns once, its
\* assignment moving the node's health by the one transition of the table,
\* and a task that has ended stays ended; so a node, Green when the interval
\* began, has moved down by at most as many levels as tasks of it have ended,
\* and two tasks ending within the interval can have taken it to Red.
C34_OverlappingCycles ==
    /\ [](/\ loop.pc = "select" => ENABLED LoopTick
          /\ \A n \in Nodes :
                health[n] - Green <= Cardinality(Ended(n)))
    /\ [][\A k \in DOMAIN probe, n \in Nodes :
            /\ (probe[k][n].pc = "set" /\ probe'[k][n].pc = "done") =>
                  /\ health'[n] = IF Ping(probe[k][n].reply)
                                  THEN ImproveTable[health[n]]
                                  ELSE DegradeTable[health[n]]
                  /\ health'[n] - health[n] \in {-1, 0, 1}
            /\ probe[k][n].pc = "done" => probe'[k][n].pc = "done"
            /\ health'[n] # health[n] =>
                  \E j \in DOMAIN probe :
                     probe[j][n].pc = "set" /\ probe'[j][n].pc = "done"
         ]_vars

\* Within the interval two tasks of one node have ended and the node, Green
\* when the interval began, is Red, while the other nodes are as they were:
\* Green, the task of the last tick still in its Ping.
C34_Witness ==
    \E n \in Nodes :
       /\ Cardinality(Ended(n)) >= 2
       /\ health[n] = Red
       /\ \A m \in Nodes \ {n} :
             /\ health[m] = Green
             /\ InFlight(m) = {MaxWriters}
             /\ probe[MaxWriters][m].pc = "ping"

\* The step in which the pingAndSet task k of node n assigns n.health, and
\* whether its Ping had succeeded.
Assigns(k, n) == probe[k][n].pc = "set" /\ probe'[k][n].pc = "done"
Succeeded(k, n) == Ping(probe[k][n].reply)

\* A health getBest lists, so that the node can be selected.
Selectable(h) == h \in {Green, Yellow}

\* C35: an assignment of a pingAndSet task moves the node's health by at
\* most one level, never between Green and Red; after a failed probe a Green
\* node is Yellow, after a successful probe a Red node is Yellow, and a node
\* becomes Red only from Yellow by a failed probe, so only after two failed
\* probes with no success between them when it was Green; getBest lists
\* the nodes it reads as Green or Yellow and no node it reads as Red.
C35_OneLevelPerProbe ==
    /\ [](\A h \in Health :
            /\ Improve(h) - h \in {-1, 0} /\ Degrade(h) - h \in {0, 1}
            /\ Selectable(Degrade(Green)) /\ ~Selectable(Degrade(Degrade(Green)))
            /\ Improve(Degrade(Green)) = Green
            /\ Selectable(Improve(Red)))
    /\ [][\A k \in DOMAIN probe, n \in Nodes :
            Assigns(k, n) =>
               /\ health'[n] - health[n] \in {-1, 0, 1}
               /\ {health[n], health'[n]} # {Green, Red}
               /\ (health[n] = Green /\ ~Succeeded(k, n)) => health'[n] = Yellow
               /\ (health[n] = Red /\ Succeeded(k, n)) => health'[n] = Yellow
               /\ (health[n] # Red /\ health'[n] = Red) =>
                     health[n] = Yellow /\ ~Succeeded(k, n)
               /\ (health[n] = Yellow /\ Succeeded(k, n)) => health'[n] = Green
               /\ \A m \in Nodes \ {n} : health'[m] = health[m]
         ]_vars
    /\ [][(loop.pc = "getBest" /\ loop' # loop) =>
            IF loop'.pc = "getBest"
            THEN Selectable(health[loop.i]) <=>
                    \/ InList(loop.i, loop'.green)
                    \/ InList(loop.i, loop'.yellow)
            ELSE /\ Selectable(health[loop.i]) => loop'.pc = "go"
                 /\ loop'.pc = "go" => Selectable(ReadHealth(loop'.node))
         ]_vars

\* One probe of a node has completed and left it Yellow, and a second one,
\* failed, is about to assign Red, while getBest has listed the node as
\* Yellow.
C35_Witness ==
    \E n \in Nodes, k, j \in DOMAIN probe :
       /\ probe[k][n].pc = "done"
       /\ probe[j][n].pc = "set" /\ ~Ping(probe[j][n].reply)
       /\ health[n] = Yellow /\ probe[j][n].val = Red
       /\ loop.pc = "getBest" /\ InList(n, loop.yellow)

\* Since the first probe cycle completed with every Ping failed, no Ping has
\* succeeded: every node is Red, and no node has had more than one probe
\* launched since, so that a Red node cannot have been Yellow in between.
NoProbeSucceededYet == ticks <= 2 /\ \A n \in Nodes : health[n] = Red

\* C36: one failed probe takes a node from the Yellow of NewNode to Red; as
\* long as no probe has succeeded since the first cycle failed on every node,
\* no request is handed to a node, no worker exists, and every call that
\* has returned has the 'no healthy nodes available' error and no response;
\* a node leaves Red only by the assignment of a probe that succeeded, to
\* Yellow, and a getBest that has read some node as not Red hands the
\* request to such a node.
C36_DownUntilProbeSucceeds ==
    /\ [](\A n \in Nodes : NewNode(n) = Yellow /\ Degrade(NewNode(n)) = Red)
    /\ [](NoProbeSucceededYet =>
            /\ loop.pc # "go"
            /\ loop.green = <<>> /\ loop.yellow = <<>>
            /\ \A c \in Callers :
                  /\ worker[c] = NoWorker
                  /\ caller[c].pc = "returned" =>
                        /\ caller[c].result.err = NoHealthyNodes(c)
                        /\ caller[c].result.response = ZeroResponse)
    /\ [][\A n \in Nodes :
            (health[n] = Red /\ health'[n] # Red) =>
               /\ health'[n] = Yellow
               /\ \E k \in DOMAIN probe :
                     Assigns(k, n) /\ Succeeded(k, n)
         ]_vars
    /\ [][(getBestReturns /\ \E n \in Nodes : ReadHealth(n) # Red) =>
            /\ loop'.pc = "go"
            /\ loop'.node \in Nodes
            /\ ReadHealth(loop'.node) # Red
         ]_vars

\* After the first cycle failed on every node, one call has returned the
\* 'no healthy nodes available' error; then a probe of a node has
\* succeeded, the node is Yellow, and the worker of a later request is
\* executing on it.
C36_Witness ==
    \E c, d \in Callers, n \in Nodes :
       /\ caller[c].pc = "returned" /\ caller[c].result.err = NoHealthyNodes(c)
       /\ probe[2][n].pc = "done" /\ health[n] = Yellow
       /\ \A m \in Nodes \ {n} : health[m] = Red
       /\ worker[d].pc = "exec" /\ worker[d].node = n

\* C37: on a Cluster built from no endpoint there is no node and no
\* pingAndSet task; no request is ever handed to a node and no worker
\* exists; every Search or MultiSearch that has returned has the 'no healthy
\* nodes available' error and no response; every call made while the loop
\* runs returns, a request with that error, unless the loop has exited on a
\* Shutdown, and a Shutdown is acknowledged; a pingAll started by a tick
\* returns without starting a task or receiving.
C37_EmptyClusterServesNothing ==
    /\ [](/\ health = << >> /\ writer = << >>
          /\ \A k \in DOMAIN probe : probe[k] = << >>
          /\ loop.pc # "go"
          /\ \A c \in Callers :
                /\ worker[c] = NoWorker
                /\ (caller[c].pc = "returned" /\ IsRequest(c)) =>
                      /\ caller[c].result.err = NoHealthyNodes(c)
                      /\ caller[c].result.response = ZeroResponse
          /\ pinger.len = 0 /\ pinger.c = 0 /\ pinger.i = 0)
    /\ \A c \in Callers :
          (caller[c].pc = "sending") ~>
             (caller[c].pc = "returned" \/ loop.pc \in {"ack", "stopped"})
    /\ \A c \in Callers :
          (caller[c].pc = "waiting") ~> (caller[c].pc = "returned")
    /\ \A c \in Callers :
          (caller[c].pc = "waitack") ~> (caller[c].pc = "returned")
    /\ (pinger.pc = "range") ~> (pinger.pc = "returned")

\* On the Cluster without nodes a tick's pingAll has returned, a request
\* has returned the 'no healthy nodes available' error and a Shutdown has
\* returned.
C37_Witness ==
    \E c, d \in Callers :
       /\ health = << >>
       /\ pinger.pc = "returned"
       /\ IsRequest(c) /\ caller[c].pc = "returned"
       /\ caller[c].result.err = NoHealthyNodes(c)
       /\ IsShutdown(d) /\ caller[d].pc = "returned"
       /\ loop.pc = "stopped"

\* The senders on the channels of caller c's bundle: the loop with the
\* selection error, the bundle's worker with what its node execution
\* returned.
LoopSends(c) == loop.pc = "sendErr" /\ loop.b = c
WorkerSends(c) == worker[c].pc = "send"

\* C38: whenever the loop is sending the selection error of a bundle, or a
\* worker the response or the error of its node execution, the bundle's
\* caller is past its intake send and has no result yet, so it is at its
\* select on both channels or about to be: the send can complete, whichever
\* channel it is on, and it is the only send on that bundle; a send that
\* is not pending has completed only into the caller's return.
C38_BundleSendsComplete ==
    \A c \in Callers :
       /\ LoopSends(c) =>
             /\ IsRequest(c) /\ caller[c].pc = "waiting" /\ caller[c].result = NoResult
             /\ ENABLED LoopSendErr(c)
             /\ ~WorkerSends(c)
       /\ WorkerSends(c) =>
             /\ IsRequest(c) /\ caller[c].pc = "waiting" /\ caller[c].result = NoResult
             /\ worker[c].out.tag \in {"response", "error"}
             /\ ENABLED (sendSearchBundle(c) \/ sendMultiSearchBundle(c))
             /\ ENABLED BundleSend(c, c, caller[c].kind)
             /\ ~LoopSends(c)
       /\ \A d \in Callers \ {c} :
             (WorkerSends(c) \/ LoopSends(c)) =>
                /\ ~ENABLED BundleSend(c, d, caller[c].kind)
                /\ Bundle(c).err # Bundle(d).err
                /\ Bundle(c).response # Bundle(d).response
       /\ worker[c].pc = "done" => caller[c].pc = "returned"

\* The loop is sending the selection error of one bundle while the worker
\* of another is sending the error of its node execution, each to a caller
\* that is waiting.
C38_Witness ==
    \E c, d \in Callers :
       /\ LoopSends(c) /\ caller[c].pc = "waiting"
       /\ WorkerSends(d) /\ worker[d].out.tag = "error" /\ caller[d].pc = "waiting"
====
